---- MODULE Spec2Model ----
(***************************************************************************)
(* Verification model of the github-ai-platform analysis core.             *)
(*                                                                         *)
(* The module holds several independent components of the repository, each *)
(* with its own variables and its own specification:                       *)
(*   SpecBatch  CodeAnalyzer.analyzeBatch and processBatch (concurrent     *)
(*              batches of per-file analyses)                              *)
(*   SpecRepo   AnalysisConfigBuilder.build, FileDiscovery.discoverFiles   *)
(*              and AnalysisEngine.analyzeRepository                       *)
(*   SpecFile   AnalyzerEngine.analyzeFile (both versions in the tree) and *)
(*              CodeAnalyzer.analyzeCode                                   *)
(*   SpecRules  the pattern loop of one SecurityAnalyzer instance          *)
(*   SpecPerf   the rule groups of PerformanceAnalyzer.analyzePerformance  *)
(*   SpecAst    ASTParser.parseCode and PatternDetectorAnalyzer            *)
(*   SpecCx     ComplexityAnalyzer                                         *)
(*   SpecSum    the summaries, scores and recommendations of the reports   *)
(*   SpecSnippet the security and performance rules on single snippets     *)
(*   SpecConfig the options of an analyzer instance over its life          *)
(* A component's actions leave the variables of the others unchanged.      *)
(***************************************************************************)
EXTENDS Integers, Sequences, FiniteSets, TLC

(***************************************************************************)
(* Bounds of the model (not program constants).                            *)
(***************************************************************************)
MaxFiles == 6

(***************************************************************************)
(* Generic helpers.                                                        *)
(***************************************************************************)
Range(s) == {s[i] : i \in 1..Len(s)}

Min(a, b) == IF a <= b THEN a ELSE b

Max(a, b) == IF a >= b THEN a ELSE b

\* array.slice(from) on the list of file indices: everything after `from`
SliceToEnd(n, from, size) == [k \in 1..(n - from) |-> from + k]

\* The items of 1..n from position `from`+1 through `from`+size, in order:
\* array.slice(from, from + size) on the list of file indices.
Slice(n, from, size) == [k \in 1..(Min(n, from + size) - from) |-> from + k]

(***************************************************************************)
(* Component 1: batch runners.                                             *)
(*                                                                         *)
(* Files are identified by their position 1..bN in the input list (the     *)
(* paths of a file list are distinct).  bFails is the set of files whose   *)
(* analysis promise rejects.                                               *)
(***************************************************************************)
VARIABLES
    bOp,        \* which runner: "analyzeBatch" or "processBatch"
    bN,         \* number of input files
    bFails,     \* files whose per-file promise rejects
    bSize,      \* chunk size (concurrencyLimit / batchSize)
    bPos,       \* number of files of already collected chunks (loop index i)
    bPc,        \* "next": about to launch a chunk, "await": awaiting it
    bRunning,   \* files whose analysis is in flight
    bOrder,     \* files of the current chunk in the order they settled
    bResults,   \* results collected so far (Map insertion order / array)
    bStatus,    \* "idle", "running", "done" (report returned), "rejected" (raised)
    bPeak       \* largest number of analyses that were in flight together

varsBatch == <<bOp, bN, bFails, bSize, bPos, bPc, bRunning, bOrder, bResults, bStatus, bPeak>>

\* const concurrencyLimit = 5 in analyzeBatch
concurrencyLimit == 5

\* batch sizes passed to processBatch
BatchSizes == {2, 3}

\* Promise.allSettled / Promise.all deliver the outcomes in the order of the
\* input array, whatever the order in which the promises settled.
SettledInFinishOrder(chunk, order) == order

SettledOutcomes(chunk, order) == chunk

\* batchResults.forEach: a fulfilled outcome is stored, a rejected one is only
\* logged.
Fulfilled(outcomes, fails) == SelectSeq(outcomes, LAMBDA f : f \notin fails)

\* analyzeBatch(files) / processBatch(items, processor, batchSize) is called:
\* files 1..n, of which those in `fails` have an analysis that rejects.
BatchCall ==
    /\ bStatus = "idle"
    /\ \E op \in {"analyzeBatch", "processBatch"}, n \in 0..MaxFiles :
          \E fails \in SUBSET (1..n),
             size \in (IF op = "analyzeBatch" THEN {concurrencyLimit} ELSE BatchSizes) :
             /\ bOp' = op
             /\ bN' = n
             /\ bFails' = fails
             /\ bSize' = size
    /\ bStatus' = "running"
    /\ UNCHANGED <<bPos, bPc, bRunning, bOrder, bResults, bPeak>>

\* for (const batch of batches) / for (i = 0; i < items.length; i += batchSize):
\* batch.map(...) starts the analysis of every file of the chunk.
BatchLaunch ==
    /\ bStatus = "running"
    /\ bPc = "next"
    /\ bPos < bN
    /\ bRunning' = Range(Slice(bN, bPos, bSize))
    /\ bOrder' = <<>>
    /\ bPc' = "await"
    /\ bPeak' = Max(bPeak, Cardinality(bRunning'))
    /\ UNCHANGED <<bOp, bN, bFails, bSize, bPos, bResults, bStatus>>

\* The loop is over: return results.
BatchReturn ==
    /\ bStatus = "running"
    /\ bPc = "next"
    /\ bPos >= bN
    /\ bStatus' = "done"
    /\ UNCHANGED <<bOp, bN, bFails, bSize, bPos, bPc, bRunning, bOrder, bResults, bPeak>>

\* One in-flight analysis settles.  Under Promise.all (processBatch) the first
\* rejection rejects the awaited promise at once and processBatch raises; the
\* analyses still in flight keep running but nothing collects them.
BatchSettle(f) ==
    /\ f \in bRunning
    /\ bRunning' = bRunning \ {f}
    /\ bOrder' = Append(bOrder, f)
    /\ bStatus' = IF bOp = "processBatch" /\ f \in bFails /\ bStatus = "running"
                  THEN "rejected" ELSE bStatus
    /\ UNCHANGED <<bOp, bN, bFails, bSize, bPos, bPc, bResults, bPeak>>

\* All promises of the chunk have settled: the await returns and the
\* outcomes are collected.
BatchCollect ==
    /\ bStatus = "running"
    /\ bPc = "await"
    /\ bRunning = {}
    /\ LET chunk == Slice(bN, bPos, bSize)
           outcomes == SettledOutcomes(chunk, bOrder)
       IN  /\ bResults' = bResults \o Fulfilled(outcomes, bFails)
           /\ bPos' = bPos + Len(chunk)
    /\ bPc' = "next"
    /\ UNCHANGED <<bOp, bN, bFails, bSize, bRunning, bOrder, bStatus, bPeak>>

NextBatchOnly ==
    \/ BatchCall
    \/ BatchLaunch
    \/ BatchReturn
    \/ \E f \in 1..MaxFiles : BatchSettle(f)
    \/ BatchCollect

(***************************************************************************)
(* Component 2: configuration, file discovery and the repository run.      *)
(*                                                                         *)
(* Candidate files are identified by their position 1..rN in the list glob *)
(* returns.  What the file system answers for a candidate (stat, size,     *)
(* extension, readFile) is chosen when the code asks, and recorded in rFs  *)
(* and rRead.  Time is the number of ticks since startTime.                *)
(***************************************************************************)
VARIABLES
    rPc,        \* "idle", "built", "discover", "process", "done"
    rCfg,       \* the CoreAnalysisConfig returned by build()
    rN,         \* number of candidate files matched by glob
    rFs,        \* per discovered candidate: what the file system answered
    rFiles,     \* files: FileInfo[] (candidate ids, in discovery order)
    rSkipped,   \* stats.skippedFiles
    rErrors,    \* stats.errors
    rPos,       \* number of entries of `files` the processing loop has taken
    rRead,      \* per processed file: outcome of getFileContent
    rEnhanced,  \* enhancedFiles
    rResults,   \* analysisResults
    rClock,     \* Date.now() - startTime
    rReport     \* the AnalysisReport returned, or NoReport

varsRepo == <<rPc, rCfg, rN, rFs, rFiles, rSkipped, rErrors, rPos, rRead,
              rEnhanced, rResults, rClock, rReport>>

MaxCands == 3

MaxTick == 1

NoReport == [returned |-> FALSE]

\* Languages a caller may request: one the analyzers know, one of the
\* Language type without a keyword table, one outside the Language type.
RequestLanguages == {"typescript", "rust", "cobol"}

\* ComplexityAnalyzer.initializeLanguageKeywords: the languages with a
\* keyword table; analyzeComplexity throws "Unsupported language" otherwise.
KeywordLanguages == {"typescript", "javascript", "python", "go", "java"}

\* defaults of AnalysisConfigBuilder.build()
DefaultLanguages == {"typescript", "javascript", "python"}

\* timeouts and size ceilings a caller may set, in model units
Timeouts == {1, 2}

SizeCeilings == {2}

\* build(): return { ...defaultConfig, ...this.config } -- the caller's
\* values override the defaults, nothing is validated.
build(langs, timeout, maxFileSize) ==
    [languages |-> langs, timeout |-> timeout, maxFileSize |-> maxFileSize]

\* What the file system answers for a candidate: the result of fs.stat, the
\* size, the language of the extension (getLanguageFromFile, "none" for
\* null) and the result of fs.readFile ("invalid": an error whose message
\* contains 'invalid').
FsAnswers ==
    { [stat |-> "ok", size |-> 1, lang |-> "typescript", read |-> "ok"],
      [stat |-> "ok", size |-> 1, lang |-> "rust", read |-> "ok"],
      [stat |-> "ok", size |-> 1, lang |-> "none", read |-> "ok"],
      [stat |-> "ok", size |-> 3, lang |-> "typescript", read |-> "ok"],
      [stat |-> "ok", size |-> 1, lang |-> "typescript", read |-> "invalid"],
      [stat |-> "ok", size |-> 1, lang |-> "typescript", read |-> "error"],
      [stat |-> "error", size |-> 1, lang |-> "typescript", read |-> "ok"] }

\* The clock is kept up to the largest timeout: later instants do not differ.
Elapse(clock, d) == Min(clock + d, CHOOSE t \in Timeouts : \A u \in Timeouts : u <= t)

\* FileDiscovery.processFile: the outcome for one candidate.
\*   "file"    a FileInfo is returned
\*   "null"    null is returned (the caller records the path as skipped)
\*   "throw"   the error is rethrown (the caller records it in stats.errors)
processFile(fs, cfg) ==
    IF fs.stat = "error" THEN "throw"
    ELSE IF fs.size > cfg.maxFileSize THEN "null"
    ELSE IF fs.lang = "none" \/ fs.lang \notin cfg.languages THEN "null"
    ELSE IF fs.read = "invalid" THEN "null"
    ELSE IF fs.read = "error" THEN "throw"
    ELSE "file"

\* AnalysisEngine.createErrorResult
createErrorResult(f) ==
    [file |-> f, type |-> "analysis_error", category |-> "maintainability",
     severity |-> "low", confidence |-> 100]

\* AnalysisEngine.analyzeFile: the file-level checks; `smell` is what the
\* content and size of the file trigger.
Smells == {"none", "empty"}

engineAnalyzeFile(f, smell) ==
    IF smell = "empty"
    THEN << [file |-> f, type |-> "code_smell", category |-> "maintainability",
             severity |-> "low", confidence |-> 90] >>
    ELSE << >>

\* FileProcessor.enhance as far as analyzeFile reads it: the file and whether
\* its content is empty
enhance(f, smell) == [file |-> f, isEmpty |-> (smell = "empty")]

Severities == {"low", "medium", "high", "critical"}

\* results.filter(r => r.<field> === value).length
CountWhere(results, field, value) ==
    Cardinality({i \in 1..Len(results) : results[i][field] = value})

\* AnalysisEngine.generateRecommendations; an entry is its text and the
\* number interpolated into it (0 when the text has none)
generateRecommendations(critical, high, complexity, maintainability, overallScore) ==
    LET recs ==
            (IF critical > 0 THEN << [text |-> "address_critical", n |-> critical] >> ELSE << >>)
         \o (IF high > 0 THEN << [text |-> "review_high", n |-> high] >> ELSE << >>)
         \o (IF complexity > 5 THEN << [text |-> "refactor_complex", n |-> 0] >> ELSE << >>)
         \o (IF maintainability > 10 THEN << [text |-> "improve_structure", n |-> 0] >> ELSE << >>)
         \o (IF overallScore < 70 THEN << [text |-> "quality_needs_improvement", n |-> 0] >>
             ELSE IF overallScore > 90 THEN << [text |-> "excellent_quality", n |-> 0] >>
             ELSE << >>)
    IN  IF recs = << >> THEN << [text |-> "good_job", n |-> 0] >> ELSE recs

\* the penalty of calculateOverallScore and generateSummary: low 1, medium 3,
\* high 7, critical 15
generalPenalty(results) ==
      CountWhere(results, "severity", "low") * 1
    + CountWhere(results, "severity", "medium") * 3
    + CountWhere(results, "severity", "high") * 7
    + CountWhere(results, "severity", "critical") * 15

\* AnalysisEngine.generateSummary
generateSummary(results) ==
    LET overallScore == Max(0, 100 - generalPenalty(results))
    IN  [totalIssues |-> Len(results),
         issuesByCategory |->
            [c \in {"security", "performance", "complexity", "maintainability"} |->
                CountWhere(results, "category", c)],
         issuesBySeverity |-> [v \in Severities |-> CountWhere(results, "severity", v)],
         overallScore |-> overallScore,
         recommendations |->
            generateRecommendations(CountWhere(results, "severity", "critical"),
                                    CountWhere(results, "severity", "high"),
                                    CountWhere(results, "category", "complexity"),
                                    CountWhere(results, "category", "maintainability"),
                                    overallScore)]

\* AnalysisConfigBuilder.create().languages(..).timeout(..).maxFileSize(..).build()
RepoBuild ==
    /\ rPc = "idle"
    /\ \E langs \in (SUBSET RequestLanguages) \ {{}}, t \in Timeouts, m \in SizeCeilings :
          rCfg' = build(langs, t, m)
    /\ rPc' = "built"
    /\ UNCHANGED <<rN, rFs, rFiles, rSkipped, rErrors, rPos, rRead, rEnhanced,
                   rResults, rClock, rReport>>

\* new AnalysisEngine(config) followed by the call of analyzeRepository: the
\* constructor copies the options into FileDiscovery and checks nothing.
RepoConstruct ==
    /\ rPc = "built"
    /\ rN' \in 0..MaxCands
    /\ rPc' = "discover"
    /\ UNCHANGED <<rCfg, rFs, rFiles, rSkipped, rErrors, rPos, rRead,
                   rEnhanced, rResults, rClock, rReport>>

\* FileDiscovery.discoverFiles, one iteration of `for (relativePath of uniqueFiles)`
RepoDiscover ==
    /\ rPc = "discover"
    /\ Len(rFs) < rN
    /\ \E fs \in FsAnswers, d \in 0..MaxTick :
          LET id == Len(rFs) + 1
              out == processFile(fs, rCfg)
          IN  /\ rFs' = Append(rFs, fs)
              /\ rFiles' = IF out = "file" THEN Append(rFiles, id) ELSE rFiles
              /\ rSkipped' = IF out = "null" THEN Append(rSkipped, id) ELSE rSkipped
              /\ rErrors' = IF out = "throw" THEN Append(rErrors, id) ELSE rErrors
              /\ rClock' = Elapse(rClock, d)
    /\ UNCHANGED <<rPc, rCfg, rN, rPos, rRead, rEnhanced, rResults, rReport>>

\* discoverFiles returns { files, stats }
RepoDiscovered ==
    /\ rPc = "discover"
    /\ Len(rFs) = rN
    /\ rPc' = "process"
    /\ UNCHANGED <<rCfg, rN, rFs, rFiles, rSkipped, rErrors, rPos, rRead,
                   rEnhanced, rResults, rClock, rReport>>

\* analyzeRepository, one iteration of `for (const file of files)`: read the
\* content, enhance, analyse; any exception becomes one error result.  The
\* loop never looks at the clock or at config.timeout.
RepoProcess ==
    /\ rPc = "process"
    /\ rPos < Len(rFiles)
    /\ \E rd \in {"ok", "fail"}, smell \in Smells, d \in 0..MaxTick :
          LET f == rFiles[rPos + 1]
          IN  /\ rRead' = Append(rRead, rd)
              /\ rEnhanced' = IF rd = "ok" THEN Append(rEnhanced, enhance(f, smell))
                             ELSE rEnhanced
              /\ rResults' = IF rd = "ok"
                             THEN rResults \o engineAnalyzeFile(f, smell)
                             ELSE Append(rResults, createErrorResult(f))
              /\ rClock' = Elapse(rClock, d)
    /\ rPos' = rPos + 1
    /\ UNCHANGED <<rPc, rCfg, rN, rFs, rFiles, rSkipped, rErrors, rReport>>

\* Phase 3: the report is assembled and returned.
RepoReport ==
    /\ rPc = "process"
    /\ rPos = Len(rFiles)
    /\ rReport' = [returned |-> TRUE,
                   results |-> rResults,
                   summary |-> generateSummary(rResults),
                   analyzedFiles |-> Len(rEnhanced),
                   skippedFiles |-> Len(rSkipped),
                   skipList |-> rSkipped,
                   errors |-> rErrors]
    /\ rPc' = "done"
    /\ UNCHANGED <<rCfg, rN, rFs, rFiles, rSkipped, rErrors, rPos, rRead,
                   rEnhanced, rResults, rClock>>

NextRepoOnly ==
    \/ RepoBuild
    \/ RepoConstruct
    \/ RepoDiscover
    \/ RepoDiscovered
    \/ RepoProcess
    \/ RepoReport

(***************************************************************************)
(* Component 3: analysis of one file.                                      *)
(*                                                                         *)
(* Three entry points analyse one file: the first AnalyzerEngine           *)
(* ("engineV1", without the performance analyzer), the AnalyzerEngine of   *)
(* step 4A ("engineV2") and CodeAnalyzer.analyzeCode ("codeAnalyzer").     *)
(* What the analyzer families find in a file is the input: a list of raw   *)
(* findings, each tagged with the family that reports it.  Confidences are *)
(* in hundredths.                                                          *)
(***************************************************************************)
VARIABLES
    fEngine,    \* the constructed analyzer: entry point and options
    fIn,        \* the last analyzeFile/analyzeCode call: file and findings
    fOut        \* what that call returned

varsFile == <<fEngine, fIn, fOut>>

MaxRawIssues == 3

Families == <<"complexity", "security", "patterns", "performance">>

\* What an analyzer family can report on a file:
\*   complexity   a function of high cognitive complexity, a large class
\*   security     SecurityAnalyzer.calculateConfidence yields 0.5, 0.7 or 0.9
\*   patterns     PatternIssue with its own confidence
\*   performance  PerformanceIssue (no confidence of its own), by type
RawPool ==
    { [family |-> "complexity", type |-> "high_cognitive", severity |-> "medium", confidence |-> 90],
      [family |-> "complexity", type |-> "large_class", severity |-> "medium", confidence |-> 80],
      [family |-> "security", type |-> "hardcoded_secret", severity |-> "critical", confidence |-> 50],
      [family |-> "security", type |-> "unsafe_eval", severity |-> "high", confidence |-> 90],
      [family |-> "patterns", type |-> "long_method", severity |-> "medium", confidence |-> 80],
      [family |-> "performance", type |-> "n_plus_one_query", severity |-> "critical", confidence |-> 0],
      [family |-> "performance", type |-> "large_object_creation", severity |-> "medium", confidence |-> 0] }

RawLists == UNION {[1..n -> RawPool] : n \in 0..MaxRawIssues}

FileLangs == {"typescript", "rust"}

FileLines == {1, 20}

\* Which family's analyzer raises on this file, besides analyzeComplexity's
\* own "Unsupported language" error.
Throwers == {"none", "security", "patterns", "performance"}

NoCall == [called |-> FALSE]

NoResult == [returned |-> FALSE]

\* AnalysisOptions / AnalyzerConfig values used at construction
Thresholds == {60, 70}

CategoryCaps == {1, 2}

\* QuickConfigs.standard() and QuickConfigs.comprehensive()
StandardCategories == {"complexity", "security", "performance"}

ComprehensiveCategories == {"complexity", "security", "performance", "duplication", "maintainability"}

severityOrder(sev) ==
    CASE sev = "critical" -> 4
      [] sev = "high" -> 3
      [] sev = "medium" -> 2
      [] sev = "low" -> 1

\* AnalyzerEngine.calculatePerformanceConfidence
calculatePerformanceConfidence(type) ==
    CASE type = "inefficient_loop" -> 90
      [] type = "n_plus_one_query" -> 95
      [] type = "excessive_async_await" -> 90
      [] type = "inefficient_regex" -> 95
      [] type = "memory_leak_risk" -> 80
      [] type = "recursive_without_memoization" -> 85
      [] type = "large_object_creation" -> 70
      [] type = "inefficient_sorting" -> 80
      [] OTHER -> 70

\* convertComplexityToIssues / convertSecurityToIssues / convertPatternToIssues
\* / convertPerformanceToIssues: the AnalysisResult of one finding.
convertToIssue(r) ==
    [family |-> r.family,
     type |-> r.type,
     category |-> CASE r.family = "complexity" ->
                          (IF r.type = "large_class" THEN "maintainability" ELSE "complexity")
                    [] r.family = "security" -> "security"
                    [] r.family = "patterns" -> "maintainability"
                    [] r.family = "performance" -> "performance",
     severity |-> r.severity,
     hasConfidence |-> TRUE,
     confidence |-> IF r.family = "performance"
                    THEN calculatePerformanceConfidence(r.type)
                    ELSE r.confidence]

\* The issue as CodeAnalyzer.analyzeCode returns it: the analyzer's own
\* record, grouped under the analyzer's name; a PerformanceIssue carries no
\* confidence.
rawIssue(r) ==
    [family |-> r.family,
     type |-> r.type,
     category |-> r.family,
     severity |-> r.severity,
     hasConfidence |-> r.family # "performance",
     confidence |-> r.confidence]

\* the synthetic issue of the catch block of the first AnalyzerEngine
analysisErrorIssue ==
    [family |-> "engine", type |-> "analysis_error", category |-> "maintainability",
     severity |-> "low", hasConfidence |-> TRUE, confidence |-> 100]

MapSeq(s, Op(_)) == [i \in 1..Len(s) |-> Op(s[i])]

\* issues.filter(issue => issue.confidence >= confidenceThreshold)
filterIssuesByConfidence(issues, threshold) ==
    SelectSeq(issues, LAMBDA i : i.confidence >= threshold)

\* the comparator without its confidence tie-break
compareIssuesBySeverityOnly(a, b) ==
    severityOrder(b.severity) - severityOrder(a.severity)

\* the comparator of limitIssuesPerCategory: negative when a sorts before b
compareIssues(a, b) ==
    IF severityOrder(b.severity) - severityOrder(a.severity) # 0
    THEN severityOrder(b.severity) - severityOrder(a.severity)
    ELSE b.confidence - a.confidence

\* Array.prototype.sort is stable: an element is inserted after the elements
\* that do not sort after it.
RECURSIVE InsertSorted(_, _)
InsertSorted(sorted, x) ==
    IF sorted = << >> THEN << x >>
    ELSE IF compareIssues(x, Head(sorted)) < 0
         THEN << x >> \o sorted
         ELSE << Head(sorted) >> \o InsertSorted(Tail(sorted), x)

RECURSIVE sortIssues(_)
sortIssues(issues) ==
    IF issues = << >> THEN << >>
    ELSE InsertSorted(sortIssues(SubSeq(issues, 1, Len(issues) - 1)), issues[Len(issues)])

CountCategory(issues, cat) ==
    Cardinality({i \in 1..Len(issues) : issues[i].category = cat})

\* the loop of limitIssuesPerCategory over the sorted issues
RECURSIVE takeLimited(_, _, _)
takeLimited(sorted, kept, cap) ==
    IF sorted = << >> THEN kept
    ELSE IF CountCategory(kept, Head(sorted).category) < cap
         THEN takeLimited(Tail(sorted), Append(kept, Head(sorted)), cap)
         ELSE takeLimited(Tail(sorted), kept, cap)

\* the cut without the sort before it
limitIssuesPerCategoryUnsorted(issues, cap) == takeLimited(issues, << >>, cap)

\* AnalyzerEngine.limitIssuesPerCategory: sort, then keep of each category
\* the first maxIssuesPerCategory issues
limitIssuesPerCategory(issues, cap) == takeLimited(sortIssues(issues), << >>, cap)

\* The findings of one family, in the order the family reports them.
familyFindings(raw, fam) == SelectSeq(raw, LAMBDA r : r.family = fam)

\* ComplexityAnalyzer.analyzeComplexity throws when the language has no
\* keyword table; `thrower` names a family whose analyzer raises on this file.
familyThrows(call, fam) ==
    \/ call.thrower = fam
    \/ fam = "complexity" /\ call.lang \notin KeywordLanguages

\* shouldAnalyzeComplexity / shouldAnalyzeSecurity / shouldAnalyzePatterns /
\* shouldAnalyzePerformance of the step-4A engine, with the enable flags of
\* its options.  Files are not generated files and have a code extension.
shouldAnalyzeV2(engine, call, fam) ==
    CASE fam = "complexity" ->
            engine.enableComplexity /\ "complexity" \in engine.categories /\ call.lines > 10
      [] fam = "security" ->
            engine.enableSecurity /\ "security" \in engine.categories
      [] fam = "patterns" ->
            engine.enablePatterns /\ "maintainability" \in engine.categories /\ call.lines > 5
      [] fam = "performance" ->
            engine.enablePerformance /\ "performance" \in engine.categories /\ call.lines > 5

\* The first engine: no performance analyzer, patterns gated by the flag only.
shouldAnalyzeV1(engine, call, fam) ==
    CASE fam = "complexity" ->
            engine.enableComplexity /\ "complexity" \in engine.categories /\ call.lines > 10
      [] fam = "security" ->
            engine.enableSecurity /\ "security" \in engine.categories
      [] fam = "patterns" -> engine.enablePatterns
      [] fam = "performance" -> FALSE

shouldAnalyze(engine, call, fam) ==
    IF engine.kind = "engineV1" THEN shouldAnalyzeV1(engine, call, fam)
    ELSE shouldAnalyzeV2(engine, call, fam)

\* The body of the try block of AnalyzerEngine.analyzeFile: the families run
\* one after the other from family number k on; the first analyzer that
\* raises ends the block.
RECURSIVE runFamilies(_, _, _, _)
runFamilies(engine, call, k, issues) ==
    IF k > Len(Families) THEN [issues |-> issues, raised |-> FALSE]
    ELSE IF ~shouldAnalyze(engine, call, Families[k])
         THEN runFamilies(engine, call, k + 1, issues)
         ELSE IF familyThrows(call, Families[k])
              THEN [issues |-> issues, raised |-> TRUE]
              ELSE runFamilies(engine, call, k + 1,
                       issues \o MapSeq(familyFindings(call.raw, Families[k]), convertToIssue))

\* AnalyzerEngine.analyzeFile of step 4A: the catch block only logs; what was
\* collected before the exception is filtered, capped and returned.
analyzeFileV2(engine, call) ==
    LET run == runFamilies(engine, call, 1, << >>)
    IN  [returned |-> TRUE,
         raised |-> run.raised,
         issues |-> limitIssuesPerCategory(
                        filterIssuesByConfidence(run.issues, engine.confidenceThreshold),
                        engine.maxIssuesPerCategory)]

\* AnalyzerEngine.analyzeFile, first version: filtering and capping are inside
\* the try block; the catch block returns the one synthetic issue.
analyzeFileV1(engine, call) ==
    LET run == runFamilies(engine, call, 1, << >>)
    IN  [returned |-> TRUE,
         raised |-> run.raised,
         issues |-> IF run.raised
                    THEN << analysisErrorIssue >>
                    ELSE limitIssuesPerCategory(
                             filterIssuesByConfidence(run.issues, engine.confidenceThreshold),
                             engine.maxIssuesPerCategory)]

\* One entry of the Promise.allSettled array of analyzeCode: the issues of a
\* family that is enabled and fulfilled, nothing otherwise.
settledIssues(engine, call, fam, enabled) ==
    IF enabled /\ ~familyThrows(call, fam)
    THEN MapSeq(familyFindings(call.raw, fam), rawIssue)
    ELSE << >>

\* CodeAnalyzer.analyzeCode: the report holds the security, performance and
\* patterns results as the analyzers produced them; confidenceThreshold and
\* maxIssuesPerCategory of the configuration are not read.  Promise.allSettled
\* takes up every analyzer's rejection, so the call as a whole never raises.
analyzeCode(engine, call) ==
    [returned |-> TRUE,
     raised |-> FALSE,
     issues |-> settledIssues(engine, call, "security", engine.enableSecurity)
                \o settledIssues(engine, call, "performance", engine.enablePerformance)
                \o settledIssues(engine, call, "patterns", engine.enablePatterns)]

analyzeWith(engine, call) ==
    CASE engine.kind = "engineV1" -> analyzeFileV1(engine, call)
      [] engine.kind = "engineV2" -> analyzeFileV2(engine, call)
      [] engine.kind = "codeAnalyzer" -> analyzeCode(engine, call)

EngineKinds == {"engineV1", "engineV2", "codeAnalyzer"}

\* new AnalyzerEngine(config, options) / new CodeAnalyzer(config): the option
\* defaults, overridden by the caller's values.
newEngine(kind, cats, threshold, cap) ==
    [kind |-> kind,
     categories |-> cats,
     enableComplexity |-> TRUE,
     enableSecurity |-> TRUE,
     enablePatterns |-> TRUE,
     enablePerformance |-> kind # "engineV1",
     maxIssuesPerCategory |-> cap,
     confidenceThreshold |-> threshold]

NoEngine == [kind |-> "none"]

FileConstruct ==
    /\ fEngine = NoEngine
    /\ \E kind \in EngineKinds, cats \in {StandardCategories, ComprehensiveCategories},
          th \in Thresholds, cap \in CategoryCaps :
          fEngine' = newEngine(kind, cats, th, cap)
    /\ UNCHANGED <<fIn, fOut>>

\* analyzeFile(fileInfo, content, repositoryId) / analyzeCode(content, language).
\* The analyzers keep nothing from one call to the next, so a behaviour
\* follows one call per instance.
FileAnalyze ==
    /\ fEngine # NoEngine
    /\ fIn = NoCall
    /\ \E raw \in RawLists, lang \in FileLangs, lines \in FileLines, thrower \in Throwers :
          LET call == [called |-> TRUE, raw |-> raw, lang |-> lang,
                       lines |-> lines, thrower |-> thrower]
          IN  /\ fIn' = call
              /\ fOut' = analyzeWith(fEngine, call)
    /\ UNCHANGED fEngine

NextFileOnly ==
    \/ FileConstruct
    \/ FileAnalyze

(***************************************************************************)
(* Component 4: the rule loops of SecurityAnalyzer and PerformanceAnalyzer.*)
(*                                                                         *)
(* A file content is a sequence of tokens; a rule matches a token or not.  *)
(* The security patterns are RegExp objects with the g flag, created once  *)
(* per analyzer instance: each carries a lastIndex from one exec call to   *)
(* the next, also across analyses.  Positions count tokens; lastIndex 0 is *)
(* the start of the content.                                               *)
(***************************************************************************)
VARIABLES
    sLastIndex, \* lastIndex of each security pattern's RegExp
    sFirst,     \* the first analyzeSecurity call of the instance and its result
    sCalls,     \* calls made on the security analyzer so far, counted up to MaxCalls
    sIn,        \* the last call on the security analyzer
    sOut,       \* what that call returned
    pIn,        \* the last analyzePerformance call
    pOut        \* what that call returned

varsRules == <<sLastIndex, sFirst, sCalls, sIn, sOut, pIn, pOut>>

MaxContent == 2

MaxCalls == 2

SecTokens == {"md5", "eval("}

PerfTokens == {"loop", "listener", "plain"}

RuleLangs == {"typescript", "python"}

ContentsOver(tokens) == UNION {[1..n -> tokens] : n \in 0..MaxContent}

\* SecurityAnalyzer.initializeSecurityPatterns, the patterns the tokens can
\* match, in table order: 'Weak Cryptographic Hash' and 'Unsafe eval Usage'.
SecPatterns == <<"weak_hash", "unsafe_eval">>

secPattern(p) ==
    CASE p = "weak_hash" ->
            [issueType |-> "insecure_crypto", severity |-> "medium", token |-> "md5",
             languages |-> {"typescript", "javascript", "python", "java"}]
      [] p = "unsafe_eval" ->
            [issueType |-> "unsafe_eval", severity |-> "high", token |-> "eval(",
             languages |-> {"typescript", "javascript"}]

\* SecurityAnalyzer.calculateConfidence on the matched text: base 0.7, raised
\* by 0.2 for evidence holding "eval(", clamped to [0.1, 1.0], in hundredths.
\* The lowering for evidence holding "test" or "example" has no case among
\* SecTokens.
calculateConfidence(evidence) ==
    LET base == 70
        up == IF evidence = "eval(" THEN 20 ELSE 0
    IN  Max(10, Min(100, base + up))

\* RegExp.prototype.exec on a g-flagged pattern: the search starts at
\* lastIndex; a match moves lastIndex behind the match, no match resets it.
execKeepsLastIndex(content, token, lastIndex) ==
    LET hits == {i \in (lastIndex + 1)..Len(content) : content[i] = token}
    IN  IF hits = {} THEN [found |-> FALSE, index |-> 0, lastIndex |-> lastIndex]
        ELSE LET i == CHOOSE h \in hits : \A g \in hits : h <= g
             IN  [found |-> TRUE, index |-> i, lastIndex |-> i]

exec(content, token, lastIndex) ==
    LET hits == {i \in (lastIndex + 1)..Len(content) : content[i] = token}
    IN  IF hits = {} THEN [found |-> FALSE, index |-> 0, lastIndex |-> 0]
        ELSE LET i == CHOOSE h \in hits : \A g \in hits : h <= g
             IN  [found |-> TRUE, index |-> i, lastIndex |-> i]

\* SecurityAnalyzer.scanPattern: while ((match = pattern.exec(content)) !== null)
RECURSIVE scanPattern(_, _, _, _)
scanPattern(content, p, lastIndex, issues) ==
    LET m == exec(content, secPattern(p).token, lastIndex)
    IN  IF ~m.found THEN [issues |-> issues, lastIndex |-> m.lastIndex]
        ELSE scanPattern(content, p, m.lastIndex,
                 Append(issues, [type |-> secPattern(p).issueType,
                                 severity |-> secPattern(p).severity,
                                 line |-> m.index,
                                 confidence |-> calculateConfidence(content[m.index])]))

\* SecurityAnalyzer.calculateRiskScore
calculateRiskScore(issues) ==
    LET n(sev) == Cardinality({i \in 1..Len(issues) : issues[i].severity = sev})
    IN  Min(n("critical") * 25 + n("high") * 10 + n("medium") * 3 + n("low") * 1, 100)

\* getLanguageSpecificPatterns
languagePatterns(lang) == SelectSeq(SecPatterns, LAMBDA p : lang \in secPattern(p).languages)

\* The loop of analyzeSecurity over the patterns from pattern number k on:
\* each scan is in its own try block.  `fault` names the pattern whose scan
\* raises (at the entry of scanPattern, before the first exec), or "none".
RECURSIVE scanPatterns(_, _, _, _, _, _)
scanPatterns(content, patterns, k, fault, lastIndex, issues) ==
    IF k > Len(patterns) THEN [issues |-> issues, lastIndex |-> lastIndex]
    ELSE IF patterns[k] = fault
         THEN scanPatterns(content, patterns, k + 1, fault, lastIndex, issues)
         ELSE LET r == scanPattern(content, patterns[k], lastIndex[patterns[k]], << >>)
              IN  scanPatterns(content, patterns, k + 1, fault,
                               [lastIndex EXCEPT ![patterns[k]] = r.lastIndex],
                               issues \o r.issues)

\* SecurityAnalyzer.analyzeSecurity
analyzeSecurity(call, lastIndex) ==
    LET r == scanPatterns(call.content, languagePatterns(call.lang), 1, call.fault,
                          lastIndex, << >>)
    IN  [issues |-> r.issues, score |-> calculateRiskScore(r.issues), lastIndex |-> r.lastIndex]

\* PerformanceAnalyzer.analyzePerformance: the rule groups in call order
PerfGroups == <<"loop", "async", "memory", "regex", "database", "recursion">>

\* what a group reports for a line: analyzeLoopPatterns on a loop reading
\* .length, analyzeMemoryPatterns on an addEventListener without removal
perfFinding(group, token) ==
    CASE group = "loop" /\ token = "loop" ->
            << [type |-> "inefficient_loop", severity |-> "medium"] >>
      [] group = "memory" /\ token = "listener" ->
            << [type |-> "memory_leak_risk", severity |-> "high"] >>
      [] OTHER -> << >>

RECURSIVE groupIssues(_, _, _)
groupIssues(content, group, i) ==
    IF i > Len(content) THEN << >>
    ELSE MapSeq(perfFinding(group, content[i]),
                LAMBDA f : [type |-> f.type, severity |-> f.severity, line |-> i,
                            confidence |-> 0])
         \o groupIssues(content, group, i + 1)

\* The try block of analyzePerformance from group number k on: one try
\* around all groups, so the group that raises ends the block.
RECURSIVE runGroups(_, _, _, _)
runGroups(content, k, fault, issues) ==
    IF k > Len(PerfGroups) THEN issues
    ELSE IF PerfGroups[k] = fault THEN issues
         ELSE runGroups(content, k + 1, fault, issues \o groupIssues(content, PerfGroups[k], 1))

\* PerformanceAnalyzer.calculateOverallScore with the weights of the general
\* table
perfOverallScoreGeneralWeights(issues) ==
    LET n(sev) == Cardinality({i \in 1..Len(issues) : issues[i].severity = sev})
    IN  IF Len(issues) = 0 THEN 100
        ELSE Max(0, 100 - (n("critical") * 15 + n("high") * 7 + n("medium") * 3 + n("low") * 1))

\* PerformanceAnalyzer.calculateOverallScore
perfOverallScore(issues) ==
    LET n(sev) == Cardinality({i \in 1..Len(issues) : issues[i].severity = sev})
    IN  IF Len(issues) = 0 THEN 100
        ELSE Max(0, 100 - (n("critical") * 25 + n("high") * 15 + n("medium") * 8 + n("low") * 3))

analyzePerformance(call) ==
    LET issues == runGroups(call.content, 1, call.fault, << >>)
    IN  [issues |-> issues, score |-> perfOverallScore(issues)]

ZeroLastIndex == [p \in Range(SecPatterns) |-> 0]

NoRuleCall == [analyzer |-> "none"]

\* securityAnalyzer.analyzeSecurity(content, language, filePath) on the one
\* analyzer instance
RulesSecurity ==
    /\ \E content \in ContentsOver(SecTokens), lang \in RuleLangs,
          fault \in {"none"} \cup Range(SecPatterns) :
          LET call == [analyzer |-> "security", content |-> content, lang |-> lang,
                       fault |-> fault]
              r == analyzeSecurity(call, sLastIndex)
          IN  /\ sIn' = call
              /\ sOut' = [returned |-> TRUE, issues |-> r.issues, score |-> r.score]
              /\ sLastIndex' = r.lastIndex
              /\ sFirst' = IF sFirst = NoRuleCall
                           THEN [analyzer |-> "security", call |-> call,
                                 issues |-> r.issues, score |-> r.score]
                           ELSE sFirst
    /\ sCalls' = Min(sCalls + 1, MaxCalls)
    /\ UNCHANGED <<pIn, pOut>>

\* SecurityAnalyzer.quickSecurityScan(content, language, issueTypes): the
\* patterns of the requested types and of the language, scanned one after
\* the other on the same RegExp objects.
QuickScanTypes == {{"insecure_crypto"}, {"insecure_crypto", "unsafe_eval"}}

quickSecurityScan(call, lastIndex) ==
    scanPatterns(call.content,
                 SelectSeq(SecPatterns, LAMBDA p : /\ secPattern(p).issueType \in call.issueTypes
                                                   /\ call.lang \in secPattern(p).languages),
                 1, "none", lastIndex, << >>)

RulesQuickScan ==
    /\ \E content \in ContentsOver(SecTokens), lang \in RuleLangs, types \in QuickScanTypes :
          LET call == [analyzer |-> "quickScan", content |-> content, lang |-> lang,
                       issueTypes |-> types]
              r == quickSecurityScan(call, sLastIndex)
          IN  /\ sIn' = call
              /\ sOut' = [returned |-> TRUE, issues |-> r.issues,
                          score |-> calculateRiskScore(r.issues)]
              /\ sLastIndex' = r.lastIndex
    /\ sCalls' = Min(sCalls + 1, MaxCalls)
    /\ UNCHANGED <<sFirst, pIn, pOut>>

NextRulesOnly ==
    \/ RulesSecurity
    \/ RulesQuickScan

\* performanceAnalyzer.analyzePerformance(content, language, filePath)
PerfAnalyze ==
    /\ \E content \in ContentsOver(PerfTokens), lang \in RuleLangs,
          fault \in {"none"} \cup Range(PerfGroups) :
          LET call == [analyzer |-> "performance", content |-> content, lang |-> lang,
                       fault |-> fault]
              r == analyzePerformance(call)
          IN  /\ pIn' = call
              /\ pOut' = [returned |-> TRUE, issues |-> r.issues, score |-> r.score]
    /\ UNCHANGED <<sLastIndex, sFirst, sCalls, sIn, sOut>>

NextPerfOnly == PerfAnalyze

(***************************************************************************)
(* Component 5: ASTParser.parseCode and PatternDetectorAnalyzer.           *)
(*                                                                         *)
(* A code text is a sequence of lines; a line is plain, longer than 120    *)
(* characters, holds a magic number, or is one the grammar cannot parse.   *)
(* What Tree-sitter does with a text is the environment's answer.          *)
(***************************************************************************)
VARIABLES
    aParsers,   \* whether the ASTParser is constructed, and the languages whose
                \* Tree-sitter parser was loaded
    aIn,        \* the last call: parseCode or analyzePatterns
    aOut        \* what that call returned

varsAst == <<aParsers, aIn, aOut>>

MaxCode == 2

ParserLanguages == {"typescript", "python"}

AstLangs == {"typescript", "python", "rust"}

CodeLines == {"plain", "long", "magic", "broken"}

CodeTexts == UNION {[1..n -> CodeLines] : n \in 0..MaxCode}

\* what parser.parse(code) does: returns a tree, throws, or returns no tree
TreeSitterAnswers == {"tree", "throws", "noTree"}

\* ASTParser.parseCode without its catch block: an exception of Tree-sitter
\* leaves the call.
parseCodeUncaught(parsers, code, lang, answer) ==
    IF lang \notin parsers
    THEN [raised |-> FALSE, success |-> FALSE, hasAst |-> FALSE, errorType |-> "language"]
    ELSE IF answer = "throws"
    THEN [raised |-> TRUE, success |-> FALSE, hasAst |-> FALSE, errorType |-> "parser"]
    ELSE IF answer = "noTree"
    THEN [raised |-> FALSE, success |-> FALSE, hasAst |-> FALSE, errorType |-> "parser"]
    ELSE LET errors == \E i \in 1..Len(code) : code[i] = "broken"
         IN  [raised |-> FALSE, success |-> ~errors, hasAst |-> TRUE,
              errorType |-> IF errors THEN "syntax" ELSE "none"]

\* ASTParser.parseCode: no parser for the language, no tree, an exception of
\* Tree-sitter and syntax errors all come back as success: false.
parseCode(parsers, code, lang, answer) ==
    IF lang \notin parsers
    THEN [raised |-> FALSE, success |-> FALSE, hasAst |-> FALSE, errorType |-> "language"]
    ELSE IF answer = "throws"
    THEN [raised |-> FALSE, success |-> FALSE, hasAst |-> FALSE, errorType |-> "parser"]
    ELSE IF answer = "noTree"
    THEN [raised |-> FALSE, success |-> FALSE, hasAst |-> FALSE, errorType |-> "parser"]
    ELSE LET errors == \E i \in 1..Len(code) : code[i] = "broken"
         IN  [raised |-> FALSE, success |-> ~errors, hasAst |-> TRUE,
              errorType |-> IF errors THEN "syntax" ELSE "none"]

\* PatternDetectorAnalyzer.analyzeWithText: a 'Long Line' issue per line over
\* 120 characters.
RECURSIVE analyzeWithText(_, _)
analyzeWithText(code, i) ==
    IF i > Len(code) THEN << >>
    ELSE (IF code[i] = "long"
          THEN << [type |-> "long_method", severity |-> "low", line |-> i, confidence |-> 70] >>
          ELSE << >>)
         \o analyzeWithText(code, i + 1)

\* PatternDetectorAnalyzer.analyzeTextPatterns: detectMagicNumbers
RECURSIVE analyzeTextPatterns(_, _)
analyzeTextPatterns(code, i) ==
    IF i > Len(code) THEN << >>
    ELSE (IF code[i] = "magic"
          THEN << [type |-> "magic_numbers", severity |-> "medium", line |-> i, confidence |-> 80] >>
          ELSE << >>)
         \o analyzeTextPatterns(code, i + 1)

\* PatternDetectorAnalyzer.analyzePatterns.  `astFault` says that a rule's
\* detector raises during the tree walk.
analyzePatterns(parsers, call) ==
    LET parse == parseCode(parsers, call.code, call.lang, call.answer)
    IN  IF parse.raised \/ (parse.success /\ parse.hasAst /\ call.astFault)
        THEN [returned |-> TRUE, raised |-> FALSE, parse |-> parse, mode |-> "fallback",
              issues |-> analyzeWithText(call.code, 1)]
        ELSE IF parse.success /\ parse.hasAst
        THEN [returned |-> TRUE, raised |-> FALSE, parse |-> parse, mode |-> "ast",
              issues |-> analyzeTextPatterns(call.code, 1)]
        ELSE [returned |-> TRUE, raised |-> FALSE, parse |-> parse, mode |-> "text",
              issues |-> analyzeWithText(call.code, 1) \o analyzeTextPatterns(call.code, 1)]

\* new ASTParser(): initializeParsers loads what it can; a language whose
\* module fails to load is left out.
AstConstruct ==
    /\ ~aParsers.loaded
    /\ \E langs \in SUBSET ParserLanguages : aParsers' = [loaded |-> TRUE, langs |-> langs]
    /\ UNCHANGED <<aIn, aOut>>

\* astParser.parseCode(code, language).  The parser keeps nothing from one
\* call to the next, so a behaviour follows one call per instance.
AstParse ==
    /\ aParsers.loaded
    /\ aIn = NoCall
    /\ \E code \in CodeTexts, lang \in AstLangs, answer \in TreeSitterAnswers :
          LET call == [fn |-> "parseCode", code |-> code, lang |-> lang, answer |-> answer]
          IN  /\ aIn' = call
              /\ aOut' = [returned |-> TRUE, raised |-> FALSE, mode |-> "none", issues |-> << >>,
                          parse |-> parseCode(aParsers.langs, code, lang, answer)]
    /\ UNCHANGED aParsers

\* patternAnalyzer.analyzePatterns(code, language, filePath)
AstAnalyzePatterns ==
    /\ aParsers.loaded
    /\ aIn = NoCall
    /\ \E code \in CodeTexts, lang \in AstLangs, answer \in TreeSitterAnswers,
          astFault \in BOOLEAN :
          LET call == [fn |-> "analyzePatterns", code |-> code, lang |-> lang,
                       answer |-> answer, astFault |-> astFault]
          IN  /\ aIn' = call
              /\ aOut' = analyzePatterns(aParsers.langs, call)
    /\ UNCHANGED aParsers

NextAstOnly ==
    \/ AstConstruct
    \/ AstParse
    \/ AstAnalyzePatterns

(***************************************************************************)
(* Component 6: ComplexityAnalyzer.                                        *)
(*                                                                         *)
(* A text is its number of lines and the functions declared in it, each    *)
(* function given by the number of keyword, operator and case matches in   *)
(* its body.  Real numbers are kept as fractions: Math.log in units of     *)
(* 1/LnScale, an average as total and count.                               *)
(***************************************************************************)
VARIABLES
    cIn,        \* the last call on the complexity analyzer
    cOut        \* what that call returned

varsCx == <<cIn, cOut>>

MaxFunctions == 2

\* matches counted in a function body
DecisionCounts == {0, 1, 40}

\* lines.length of a text; ''.split('\n') has one element
LineCounts == {1, 2, 3, 10, 100, 1000}

LnScale == 10000

\* Math.log, in units of 1/LnScale
Ln(n) ==
    CASE n = 1 -> 0
      [] n = 2 -> 6931
      [] n = 3 -> 10986
      [] n = 10 -> 23026
      [] n = 100 -> 46052
      [] n = 1000 -> 69078

\* Math.round of the fraction num/den, den > 0: the nearest integer, halves up
Round(num, den) == (2 * num + den) \div (2 * den)

RECURSIVE SumSeq(_)
SumSeq(q) == IF q = << >> THEN 0 ELSE Head(q) + SumSeq(Tail(q))

\* ComplexityAnalyzer.calculateCyclomaticComplexity with the base left out
calculateCyclomaticComplexityNoBase(matches) == matches

\* ComplexityAnalyzer.calculateCyclomaticComplexity: base 1 plus one per match
calculateCyclomaticComplexity(matches) == 1 + matches

\* ComplexityAnalyzer.calculateMaintainabilityIndex without Math.max(0, ..)
calculateMaintainabilityIndexUnclamped(linesOfCode, total, count) ==
    IF linesOfCode = 0 THEN 100
    ELSE LET n == IF count = 0 THEN 1 ELSE count
             den == LnScale * n
             num == 100 * den - 3 * total * LnScale - 5 * Ln(linesOfCode) * n
         IN  Round(num, den)

\* ComplexityAnalyzer.calculateMaintainabilityIndex(linesOfCode, avgComplexity)
\* with avgComplexity = total / count (0 when there is no function):
\* Math.round(Math.max(0, 100 - avgComplexity * 3 - Math.log(linesOfCode) * 5))
calculateMaintainabilityIndex(linesOfCode, total, count) ==
    IF linesOfCode = 0 THEN 100
    ELSE LET n == IF count = 0 THEN 1 ELSE count
             den == LnScale * n
             num == 100 * den - 3 * total * LnScale - 5 * Ln(linesOfCode) * n
         IN  Round(Max(0, num), den)

\* The earlier ComplexityAnalyzer.calculateMaintainabilityIndex:
\* Math.max(0, Math.round(100 - complexity * 2 - Math.log(linesOfCode) * 5))
calculateMaintainabilityIndexV1(linesOfCode, complexity) ==
    Max(0, Round(100 * LnScale - 2 * complexity * LnScale - 5 * Ln(linesOfCode), LnScale))

\* ComplexityAnalyzer.calculateFileComplexity
calculateFileComplexity(functions, totalLines) ==
    LET total == SumSeq(functions)
        count == Len(functions)
    IN  [totalCyclomaticComplexity |-> total,
         maxFunctionComplexity |-> IF count > 0
                                   THEN CHOOSE m \in Range(functions) :
                                            \A x \in Range(functions) : x <= m
                                   ELSE 0,
         maintainabilityIndex |-> calculateMaintainabilityIndex(totalLines, total, count)]

\* ComplexityAnalyzer.analyzeComplexity for a language with a keyword table:
\* the file-level cyclomaticComplexity is the sum over the functions found.
analyzeComplexity(call) ==
    LET functions == [i \in 1..Len(call.functions) |->
                          calculateCyclomaticComplexity(call.functions[i])]
    IN  [returned |-> TRUE,
         cyclomaticComplexity |-> SumSeq(functions),
         functionComplexity |-> functions,
         fileComplexity |-> calculateFileComplexity(functions, call.lines)]

\* The earlier ComplexityAnalyzer.fallbackTextAnalysis: one count for the
\* whole text, starting at 1.
fallbackTextAnalysis(call) ==
    LET cyclomaticComplexity == 1 + call.matches
    IN  [returned |-> TRUE,
         cyclomaticComplexity |-> cyclomaticComplexity,
         functionComplexity |-> << >>,
         fileComplexity |-> [totalCyclomaticComplexity |-> cyclomaticComplexity,
                             maxFunctionComplexity |-> cyclomaticComplexity,
                             maintainabilityIndex |->
                                 calculateMaintainabilityIndexV1(call.lines, cyclomaticComplexity)]]

FunctionLists == UNION {[1..n -> DecisionCounts] : n \in 0..MaxFunctions}

\* complexityAnalyzer.analyzeComplexity(code, languageId, filePath, language):
\* every function declaration is on a line of its own.  The analyzer keeps
\* nothing from one call to the next, so a behaviour follows one call.
CxAnalyze ==
    /\ cIn = NoCall
    /\ \E lines \in LineCounts, functions \in FunctionLists :
          /\ Len(functions) <= lines
          /\ LET call == [fn |-> "analyzeComplexity", lines |-> lines, functions |-> functions]
             IN  /\ cIn' = call
                 /\ cOut' = analyzeComplexity(call)

\* calculateMaintainabilityIndex(linesOfCode, avgComplexity) on its own,
\* linesOfCode 0 included
CxIndex ==
    /\ cIn = NoCall
    /\ \E lines \in {0} \cup LineCounts, functions \in FunctionLists :
          LET call == [fn |-> "calculateMaintainabilityIndex", lines |-> lines,
                       functions |-> functions]
              mi == calculateMaintainabilityIndex(lines, SumSeq(functions), Len(functions))
          IN  /\ cIn' = call
              /\ cOut' = [returned |-> TRUE, cyclomaticComplexity |-> SumSeq(functions),
                          functionComplexity |-> functions,
                          fileComplexity |-> [totalCyclomaticComplexity |-> SumSeq(functions),
                                              maxFunctionComplexity |-> 0,
                                              maintainabilityIndex |-> mi]]

\* The earlier analyzeComplexity on a text that did not parse
CxFallback ==
    /\ cIn = NoCall
    /\ \E lines \in LineCounts, matches \in DecisionCounts :
          LET call == [fn |-> "fallbackTextAnalysis", lines |-> lines, matches |-> matches]
          IN  /\ cIn' = call
              /\ cOut' = fallbackTextAnalysis(call)

NextCxOnly ==
    \/ CxAnalyze
    \/ CxIndex
    \/ CxFallback

(***************************************************************************)
(* Component 7: summaries, scores and recommendations.                     *)
(*                                                                         *)
(* The input of a summary is what the analyzers returned.  A list of       *)
(* issues is given by how often each kind of finding occurs in it.  A      *)
(* JavaScript number that can be NaN is a record.  An analyzer result that *)
(* is undefined (analyzer disabled or failed) is the record Undefined.     *)
(* Weighted sums are kept as fractions.                                    *)
(***************************************************************************)
VARIABLES
    uIn,            \* the call: function and arguments
    uOut            \* what the call returned

varsSum == <<uIn, uOut>>

MaxRepeat == 40

Num(v) == [nan |-> FALSE, value |-> v]

NaN == [nan |-> TRUE, value |-> 0]

Undefined == [undefined |-> TRUE]

\* r?.a?.b || d for a numeric field: undefined and 0 are both falsy
OrDefault(r, a, b, d) ==
    IF a \in DOMAIN r /\ b \in DOMAIN r[a] /\ r[a][b] # 0 THEN r[a][b] ELSE d

\* r?.issues || []
issuesOrEmpty(r) == IF "issues" \in DOMAIN r THEN r.issues ELSE << >>

\* the list holding count[k] times the finding kinds[k], kind after kind
RECURSIVE IssuesOf(_, _, _)
IssuesOf(kinds, count, k) ==
    IF k > Len(kinds) THEN << >>
    ELSE [i \in 1..count[k] |-> kinds[k]] \o IssuesOf(kinds, count, k + 1)

\* what AnalysisEngine.analyzeFile and createErrorResult report
EngineFindings ==
    << [title |-> "Empty File", category |-> "maintainability", severity |-> "low"],
       [title |-> "Large File", category |-> "maintainability", severity |-> "medium"],
       [title |-> "File Too Long", category |-> "complexity", severity |-> "medium"],
       [title |-> "Analysis Error", category |-> "maintainability", severity |-> "low"] >>

\* findings of the patterns of SecurityAnalyzer
SecurityFindings ==
    << [type |-> "sql_injection", severity |-> "critical"],
       [type |-> "unsafe_eval", severity |-> "high"],
       [type |-> "insecure_crypto", severity |-> "medium"] >>

\* findings of the rule groups of PerformanceAnalyzer
PerformanceFindings ==
    << [type |-> "inefficient_loop", severity |-> "medium"],
       [type |-> "excessive_async_await", severity |-> "high"],
       [type |-> "memory_leak_risk", severity |-> "high"],
       [type |-> "large_object_creation", severity |-> "medium"],
       [type |-> "inefficient_regex", severity |-> "critical"],
       [type |-> "n_plus_one_query", severity |-> "critical"],
       [type |-> "recursive_without_memoization", severity |-> "high"] >>

\* findings of PatternDetectorAnalyzer
PatternFindings ==
    << [type |-> "long_method", severity |-> "low"],
       [type |-> "magic_numbers", severity |-> "medium"] >>

\* SecurityAnalyzer.generateSecurityRecommendations for the types of
\* SecurityFindings
generateSecurityRecommendations(issues) ==
       (IF CountWhere(issues, "type", "sql_injection") > 0
        THEN << [text |-> "parameterized_queries", n |-> 0] >> ELSE << >>)
    \o (IF CountWhere(issues, "type", "insecure_crypto") > 0
        THEN << [text |-> "secure_algorithms", n |-> 0] >> ELSE << >>)
    \o (IF Len(issues) > 10
        THEN << [text |-> "automated_security_testing", n |-> 0] >> ELSE << >>)

\* SecurityAnalyzer.analyzeSecurity: issues and generateSecuritySummary; the
\* recommendations are a property of the summary
securityResult(issues) ==
    [issues |-> issues,
     summary |-> [totalIssues |-> Len(issues),
                  criticalIssues |-> CountWhere(issues, "severity", "critical"),
                  highIssues |-> CountWhere(issues, "severity", "high"),
                  mediumIssues |-> CountWhere(issues, "severity", "medium"),
                  lowIssues |-> CountWhere(issues, "severity", "low"),
                  overallRiskScore |-> calculateRiskScore(issues),
                  recommendations |-> generateSecurityRecommendations(issues)]]

\* the earlier SecurityAnalyzer.analyzeCode: generateSummary with
\* securityScore = Math.max(0, 100 - totalPenalty), weights 25/10/5/1
securityResultV1(issues) ==
    [issues |-> issues,
     summary |-> [totalIssues |-> Len(issues),
                  securityScore |->
                      Max(0, 100 - (  CountWhere(issues, "severity", "critical") * 25
                                    + CountWhere(issues, "severity", "high") * 10
                                    + CountWhere(issues, "severity", "medium") * 5
                                    + CountWhere(issues, "severity", "low") * 1))]]

\* PerformanceAnalyzer.generateRecommendations
performanceRecommendations(issues) ==
    LET has(t) == \E i \in 1..Len(issues) : issues[i].type = t
        rec(t, text) == IF has(t) THEN << [text |-> text, n |-> 0] >> ELSE << >>
        recs ==    rec("inefficient_loop", "optimize_loops")
                \o rec("excessive_async_await", "parallelize_async")
                \o rec("n_plus_one_query", "eliminate_n_plus_one")
                \o rec("memory_leak_risk", "cleanup_listeners")
                \o rec("inefficient_regex", "review_regex")
                \o rec("recursive_without_memoization", "add_memoization")
    IN  IF recs = << >> THEN << [text |-> "no_performance_recommendations", n |-> 0] >>
        ELSE recs

\* PerformanceAnalyzer.generateAnalysisResult
performanceResult(issues) ==
    [issues |-> issues,
     summary |-> [totalIssues |-> Len(issues),
                  criticalIssues |-> CountWhere(issues, "severity", "critical"),
                  overallScore |-> perfOverallScore(issues)],
     recommendations |-> performanceRecommendations(issues)]

\* PatternDetectorAnalyzer.generateSummary: codeQualityScore
codeQualityScore(issues) == Max(0, 100 - generalPenalty(issues))

\* PatternDetectorAnalyzer.analyzePatterns: issues, summary and goodPatterns
patternResult(issues, good) ==
    [issues |-> issues,
     summary |-> [totalIssues |-> Len(issues), codeQualityScore |-> codeQualityScore(issues)],
     goodPatterns |-> [i \in 1..good |-> "good_pattern"]]

\* calculateOverallScore of the shared helpers
calculateOverallScore(issuesBySeverity) ==
    Max(0, 100 - (  issuesBySeverity["low"] * 1 + issuesBySeverity["medium"] * 3
                  + issuesBySeverity["high"] * 7 + issuesBySeverity["critical"] * 15))

\* Set.add over a list of entries: insertion order, an entry already in the
\* set is not added again
RECURSIVE addAll(_, _)
addAll(set, recs) ==
    IF recs = << >> THEN set
    ELSE addAll(IF \E i \in 1..Len(set) : set[i] = Head(recs) THEN set
                ELSE Append(set, Head(recs)),
                Tail(recs))

\* the Set of generateCombinedRecommendations before Array.from(..).slice
combinedRecommendationSet(complexity, security, performance, patterns) ==
    LET own(r) == IF "recommendations" \in DOMAIN r THEN r.recommendations ELSE << >>
        good == IF "goodPatterns" \in DOMAIN patterns
                THEN << [text |-> "good_patterns", n |-> Len(patterns.goodPatterns)] >>
                ELSE << >>
        critical == CountWhere(issuesOrEmpty(security), "severity", "critical")
                  + CountWhere(issuesOrEmpty(performance), "severity", "critical")
        urgent == IF critical > 0 THEN << [text |-> "urgent", n |-> critical] >> ELSE << >>
        perfIssues == issuesOrEmpty(performance)
        perfTypes == {perfIssues[i].type : i \in 1..Len(perfIssues)}
        focus == IF Len(perfIssues) > 0 /\ Cardinality(perfTypes) > 3
                 THEN << [text |-> "focus_performance", n |-> 0] >>
                 ELSE << >>
    IN  addAll(<< >>, own(complexity) \o own(security) \o own(performance)
                      \o good \o urgent \o focus)

\* generateCombinedRecommendations with slice(0, 7)
generateCombinedRecommendationsTop7(complexity, security, performance, patterns) ==
    SubSeq(combinedRecommendationSet(complexity, security, performance, patterns), 1,
           Min(7, Len(combinedRecommendationSet(complexity, security, performance, patterns))))

\* CodeAnalyzer.generateCombinedRecommendations
generateCombinedRecommendations(complexity, security, performance, patterns) ==
    SubSeq(combinedRecommendationSet(complexity, security, performance, patterns), 1,
           Min(8, Len(combinedRecommendationSet(complexity, security, performance, patterns))))

\* CodeAnalyzer.generateComprehensiveSummary
generateComprehensiveSummary(complexity, security, performance, patterns) ==
    LET allIssues == issuesOrEmpty(security) \o issuesOrEmpty(performance)
                     \o issuesOrEmpty(patterns)
        issuesByCategory == [complexity |-> Len(issuesOrEmpty(complexity)),
                             security |-> Len(issuesOrEmpty(security)),
                             performance |-> Len(issuesOrEmpty(performance)),
                             patterns |-> Len(issuesOrEmpty(patterns))]
        scores == [complexity |->
                       IF "overallScore" \in DOMAIN complexity /\ complexity.overallScore # 0
                       THEN complexity.overallScore
                       ELSE OrDefault(complexity, "fileComplexity", "maintainabilityIndex", 100),
                   security |-> OrDefault(security, "summary", "overallScore", 100),
                   performance |-> OrDefault(performance, "summary", "overallScore", 100),
                   patterns |-> OrDefault(patterns, "summary", "codeQualityScore", 100)]
    IN  [totalIssues |-> issuesByCategory.complexity + issuesByCategory.security
                         + issuesByCategory.performance + issuesByCategory.patterns,
         issuesByCategory |-> issuesByCategory,
         issuesBySeverity |-> [v \in Severities |-> CountWhere(allIssues, "severity", v)],
         overallScore |-> Round(  scores.complexity * 2 + scores.security * 3
                                + scores.performance * 3 + scores.patterns * 2, 10),
         recommendations |->
             generateCombinedRecommendations(complexity, security, performance, patterns)]

\* AnalyzerEngine.calculateComplexityScore
calculateComplexityScore(complexity) == complexity.fileComplexity.maintainabilityIndex

\* security ? security.summary.securityScore : 100, a missing property being
\* undefined and undefined in arithmetic NaN
securityScoreOf(security) ==
    IF security = Undefined THEN Num(100)
    ELSE IF "securityScore" \in DOMAIN security.summary
         THEN Num(security.summary.securityScore)
         ELSE NaN

\* the scores of the first AnalyzerEngine.generateSummary:
\* Math.round((complexity + security + maintainability) / 3)
generateSummaryV1(complexity, security, patterns) ==
    LET c == IF complexity = Undefined THEN 100 ELSE calculateComplexityScore(complexity)
        s == securityScoreOf(security)
        m == IF patterns = Undefined THEN 100 ELSE patterns.summary.codeQualityScore
    IN  [complexity |-> Num(c), security |-> s, maintainability |-> Num(m),
         overall |-> IF s.nan THEN NaN ELSE Num(Round(c + s.value + m, 3))]

\* the scores of AnalyzerEngine.generateSummary with the performance
\* analyzer: Math.round(complexity * 0.25 + security * 0.3
\*                      + maintainability * 0.2 + performance * 0.25)
generateSummaryV2(complexity, security, patterns, performance) ==
    LET c == IF complexity = Undefined THEN 100 ELSE calculateComplexityScore(complexity)
        s == securityScoreOf(security)
        m == IF patterns = Undefined THEN 100 ELSE patterns.summary.codeQualityScore
        p == IF performance = Undefined THEN 100 ELSE performance.summary.overallScore
    IN  [complexity |-> Num(c), security |-> s, maintainability |-> Num(m),
         performance |-> Num(p),
         overall |-> IF s.nan THEN NaN
                     ELSE Num(Round(c * 25 + s.value * 30 + m * 20 + p * 25, 100))]

\* the results the analyzers can hand to a summary: no function, one simple
\* function, one function of 40 decision points; few or many findings of a
\* kind; no, one, all but one or all types of performance finding
ComplexityCalls ==
    { [fn |-> "analyzeComplexity", lines |-> 1, functions |-> << >>],
      [fn |-> "analyzeComplexity", lines |-> 100, functions |-> << 1 >>],
      [fn |-> "analyzeComplexity", lines |-> 10, functions |-> << 40 >>] }

ComplexityResults == {Undefined} \cup {analyzeComplexity(call) : call \in ComplexityCalls}

SecurityIssueLists ==
    {IssuesOf(SecurityFindings, count, 1) :
        count \in [1..Len(SecurityFindings) -> {0, 1}] \cup
                  {<<4, 0, 0>>, <<4, 1, 0>>, <<MaxRepeat, 0, 1>>}}

PerformanceIssueLists ==
    {IssuesOf(PerformanceFindings,
              [k \in 1..Len(PerformanceFindings) |-> IF k \in types THEN times ELSE 0], 1) :
        types \in {t \in SUBSET (1..Len(PerformanceFindings)) :
                        Cardinality(t) <= 1 \/ Cardinality(t) >= Len(PerformanceFindings) - 1},
        times \in {1, 4}}

\* one type of finding, as often as MaxRepeat times
PerformanceIssueListsOfOneType ==
    {IssuesOf(PerformanceFindings,
              [k \in 1..Len(PerformanceFindings) |-> IF k = type THEN times ELSE 0], 1) :
        type \in 1..Len(PerformanceFindings), times \in {0, 1, 4, MaxRepeat}}

PatternResults ==
    {Undefined} \cup
    {patternResult(IssuesOf(PatternFindings, count, 1), good) :
        count \in [1..Len(PatternFindings) -> {0, 1}] \cup {<<0, MaxRepeat>>},
        good \in {0, 1}}

\* AnalysisEngine.generateSummary(analysisResults)
SumEngine ==
    /\ uIn = NoCall
    /\ \E count \in [1..Len(EngineFindings) -> {0, 1, 4, MaxRepeat}] :
          LET results == IssuesOf(EngineFindings, count, 1)
              summary == generateSummary(results)
          IN  /\ uIn' = [fn |-> "generateSummary", results |-> results]
              /\ uOut' = [returned |-> TRUE,
                          overall |-> Num(summary.overallScore),
                          issuesByCategory |-> summary.issuesByCategory,
                          issuesBySeverity |-> summary.issuesBySeverity,
                          recommendations |-> summary.recommendations]

\* CodeAnalyzer.generateComprehensiveSummary(complexity, security,
\* performance, patterns) on the results analyzeCode extracted
SumComprehensive ==
    /\ uIn = NoCall
    /\ \E complexity \in ComplexityResults,
          security \in {Undefined} \cup {securityResult(i) : i \in SecurityIssueLists},
          performance \in {Undefined} \cup {performanceResult(i) : i \in PerformanceIssueLists},
          patterns \in PatternResults :
          LET summary == generateComprehensiveSummary(complexity, security, performance,
                                                      patterns)
          IN  /\ uIn' = [fn |-> "generateComprehensiveSummary", complexity |-> complexity,
                         security |-> security, performance |-> performance,
                         patterns |-> patterns]
              /\ uOut' = [returned |-> TRUE,
                          overall |-> Num(summary.overallScore),
                          issuesByCategory |-> summary.issuesByCategory,
                          issuesBySeverity |-> summary.issuesBySeverity,
                          recommendations |-> summary.recommendations]

\* generateSummary of the first AnalyzerEngine, on the results of
\* analyzeComplexity, securityAnalyzer.analyzeCode and analyzePatterns
SumAnalyzerV1 ==
    /\ uIn = NoCall
    /\ \E complexity \in ComplexityResults,
          security \in {Undefined} \cup {securityResultV1(i) : i \in SecurityIssueLists},
          patterns \in PatternResults :
          /\ uIn' = [fn |-> "generateSummaryV1", complexity |-> complexity,
                     security |-> security, performance |-> Undefined,
                     patterns |-> patterns]
          /\ uOut' = [returned |-> TRUE,
                      scores |-> generateSummaryV1(complexity, security, patterns),
                      overall |-> generateSummaryV1(complexity, security, patterns).overall]

\* generateSummary of the AnalyzerEngine with the performance analyzer, on the
\* results of analyzeComplexity, securityAnalyzer.analyzeSecurity,
\* analyzePatterns and analyzePerformance
SumAnalyzerV2 ==
    /\ uIn = NoCall
    /\ \E complexity \in ComplexityResults,
          security \in {Undefined} \cup {securityResult(i) : i \in SecurityIssueLists},
          patterns \in PatternResults,
          performance \in {Undefined} \cup
                          {performanceResult(i) : i \in PerformanceIssueListsOfOneType} :
          /\ uIn' = [fn |-> "generateSummaryV2", complexity |-> complexity,
                     security |-> security, performance |-> performance,
                     patterns |-> patterns]
          /\ uOut' = [returned |-> TRUE,
                      scores |-> generateSummaryV2(complexity, security, patterns, performance),
                      overall |-> generateSummaryV2(complexity, security, patterns,
                                                    performance).overall]

\* the score an analyzer puts on the issues of its category
SumCategoryScore ==
    /\ uIn = NoCall
    /\ \/ \E i \in SecurityIssueLists :
             /\ uIn' = [fn |-> "calculateRiskScore", category |-> "security", issues |-> i]
             /\ uOut' = [returned |-> TRUE, score |-> securityResult(i).summary.overallRiskScore]
       \/ \E i \in SecurityIssueLists :
             /\ uIn' = [fn |-> "securityScore", category |-> "security", issues |-> i]
             /\ uOut' = [returned |-> TRUE, score |-> securityResultV1(i).summary.securityScore]
       \/ \E i \in PerformanceIssueListsOfOneType :
             /\ uIn' = [fn |-> "calculateOverallScore", category |-> "performance",
                        issues |-> i]
             /\ uOut' = [returned |-> TRUE, score |-> performanceResult(i).summary.overallScore]
       \/ \E count \in [1..Len(PatternFindings) -> {0, 1, MaxRepeat}] :
             LET i == IssuesOf(PatternFindings, count, 1)
             IN  /\ uIn' = [fn |-> "codeQualityScore", category |-> "general", issues |-> i]
                 /\ uOut' = [returned |-> TRUE, score |-> codeQualityScore(i)]
       \/ \E count \in [1..Len(EngineFindings) -> {0, 1, MaxRepeat}] :
             LET i == IssuesOf(EngineFindings, count, 1)
             IN  /\ uIn' = [fn |-> "helpers.calculateOverallScore", category |-> "general",
                            issues |-> i]
                 /\ uOut' = [returned |-> TRUE,
                             score |-> calculateOverallScore(
                                 [v \in Severities |-> CountWhere(i, "severity", v)])]

\* the confidence the analyzers give a finding: SecurityAnalyzer 0.7 and 0.9
\* for a match that holds "eval(", PatternDetectorAnalyzer 0.7 for a long
\* method and 0.8 for magic numbers, the engine's table for performance
findingConfidence(type) ==
    CASE type = "unsafe_eval" -> 90
      [] type \in {"sql_injection", "insecure_crypto"} -> 70
      [] type = "long_method" -> 70
      [] type = "magic_numbers" -> 80
      [] OTHER -> calculatePerformanceConfidence(type)

\* convertSecurityToIssues / convertPatternToIssues /
\* convertPerformanceToIssues: one issue per finding of the result
convertResultToIssues(result, category) ==
    IF result = Undefined THEN << >>
    ELSE [i \in 1..Len(result.issues) |->
             [category |-> category, type |-> result.issues[i].type,
              severity |-> result.issues[i].severity,
              confidence |-> findingConfidence(result.issues[i].type)]]

\* convertComplexityToIssues for a text without classes, every function of
\* which has the given cognitive complexity
convertComplexityToIssues(complexity, cognitive) ==
    IF complexity = Undefined \/ cognitive <= 15 THEN << >>
    ELSE [i \in 1..Len(complexity.functionComplexity) |->
             [category |-> "complexity", type |-> "high_cognitive",
              severity |-> IF cognitive > 25 THEN "high" ELSE "medium",
              confidence |-> 90]]

\* the issues and the scores of the report of AnalyzerEngine.analyzeFile
analyzeFileReport(call) ==
    LET issues == convertComplexityToIssues(call.complexity, call.cognitive)
                  \o convertResultToIssues(call.security, "security")
                  \o convertResultToIssues(call.patterns, "maintainability")
                  \o convertResultToIssues(call.performance, "performance")
    IN  [returned |-> TRUE,
         issues |-> limitIssuesPerCategory(
                        filterIssuesByConfidence(issues, call.confidenceThreshold),
                        call.maxIssuesPerCategory),
         scores |-> generateSummaryV2(call.complexity, call.security, call.patterns,
                                      call.performance)]

\* AnalyzerEngine.analyzeFile on a file none of whose analyzers raises; an
\* analyzer that is switched off leaves its result undefined
SumFileReport ==
    /\ uIn = NoCall
    /\ \E complexity \in ComplexityResults, cognitive \in {0, 20},
          security \in {Undefined} \cup
                       {securityResult(IssuesOf(SecurityFindings, count, 1)) :
                            count \in {<<0, 0, 0>>, <<1, 0, 0>>, <<0, 1, 1>>}},
          patterns \in {Undefined} \cup
                       {patternResult(IssuesOf(PatternFindings, count, 1), 0) :
                            count \in {<<0, 0>>, <<1, 1>>}},
          performance \in {Undefined} \cup
                          {performanceResult(IssuesOf(PerformanceFindings,
                               [k \in 1..Len(PerformanceFindings) |-> IF k = type THEN 1 ELSE 0], 1)) :
                               type \in 0..Len(PerformanceFindings)},
          threshold \in {60, 80}, cap \in {1, 50} :
          LET call == [fn |-> "analyzeFile", complexity |-> complexity, cognitive |-> cognitive,
                       security |-> security, patterns |-> patterns,
                       performance |-> performance, confidenceThreshold |-> threshold,
                       maxIssuesPerCategory |-> cap]
          IN  /\ uIn' = call
              /\ uOut' = analyzeFileReport(call)

NextSumOnly ==
    \/ SumEngine
    \/ SumComprehensive
    \/ SumAnalyzerV1
    \/ SumAnalyzerV2
    \/ SumCategoryScore
    \/ SumFileReport

(***************************************************************************)
(* Component 8: the detectors on single snippets.                          *)
(*                                                                         *)
(* A text is kept at the grain the detectors' regular expressions read it: *)
(* an assignment of a quoted value is its name, its quote and the          *)
(* characters of the value; a line of code is its indentation and its      *)
(* tokens; a regular-expression literal is the characters of its body.     *)
(***************************************************************************)
VARIABLES
    nIn,            \* the call: detector and snippet
    nOut            \* the issues it returned

varsSnippet == <<nIn, nOut>>

MaxSecretLen == 32

MaxSnippet == 3

MaxInner == 3

\* does the sequence hold the word (a sequence) as a contiguous part
Includes(text, word) ==
    \E i \in 1..(Len(text) - Len(word) + 1) :
        \A k \in 1..Len(word) : text[i + k - 1] = word[k]

\* [a-zA-Z0-9]
AlnumChars == {"s", "k", "t", "e", "1"}

ValueChars == AlnumChars \cup {"-"}

\* the names on the left of an assignment, as the i-flagged alternatives
\* api[_-]?key | secret[_-]?key | access[_-]?token read them
SecretNames ==
    { [first |-> "api", sep |-> "_", second |-> "key"],
      [first |-> "API", sep |-> "", second |-> "KEY"],
      [first |-> "access", sep |-> "-", second |-> "token"],
      [first |-> "api", sep |-> ".", second |-> "key"],
      [first |-> "user", sep |-> "_", second |-> "name"] }

lowerCase(word) ==
    CASE word = "API" -> "api"
      [] word = "KEY" -> "key"
      [] OTHER -> word

matchesSecretName(name) ==
    /\ name.sep \in {"", "_", "-"}
    /\ <<lowerCase(name.first), lowerCase(name.second)>> \in
           {<<"api", "key">>, <<"secret", "key">>, <<"access", "token">>}

\* the pattern of 'Hardcoded API Key' on the text  name = "value";
\* a single or double quote (no backtick), at least 16 characters of
\* [a-zA-Z0-9] and then a quote
matchesHardcodedApiKey(line) ==
    /\ matchesSecretName(line.name)
    /\ line.quote \in {"single", "double"}
    /\ Len(line.value) >= 16
    /\ \A i \in 1..Len(line.value) : line.value[i] \in AlnumChars

\* SecurityAnalyzer.calculateConfidence on the matched text of an
\* assignment: base 0.7, raised by 0.2 for "eval(" or "innerHTML =" (neither
\* can be in a match of this pattern), lowered by 0.2 for "test" or
\* "example", clamped to [0.1, 1.0]; in hundredths
calculateConfidenceOfMatch(line) ==
    LET down == IF Includes(line.value, <<"t", "e", "s", "t">>) THEN 20 ELSE 0
    IN  Max(10, Min(100, 70 - down))

\* scanPattern for 'Hardcoded API Key' on a one-line content
scanHardcodedApiKey(line) ==
    IF matchesHardcodedApiKey(line)
    THEN << [type |-> "hardcoded_secret", severity |-> "critical",
             confidence |-> calculateConfidenceOfMatch(line)] >>
    ELSE << >>

SecretPrefixes == {<< >>, <<"s", "k", "-">>, <<"t", "e", "s", "t">>}

SecretLines ==
    {[name |-> name, quote |-> quote, value |-> prefix \o [i \in 1..n |-> "1"]] :
        name \in SecretNames, quote \in {"double", "backtick"}, prefix \in SecretPrefixes,
        n \in 0..MaxSecretLen}

\* quickSecurityScan(content, 'typescript', [HARDCODED_SECRET]) on a content
\* of one assignment
SnippetSecret ==
    /\ nIn = NoCall
    /\ \E line \in SecretLines :
          /\ nIn' = [fn |-> "quickSecurityScan", line |-> line]
          /\ nOut' = [returned |-> TRUE, issues |-> scanHardcodedApiKey(line)]

\* ---- lines of code, as the performance rules read them -------------------

Line(indent, tokens) == [indent |-> indent, tokens |-> tokens, regex |-> << >>]

\* the lines the snippets are made of
LineKinds ==
    { Line(0, <<"items", ".", "forEach", "(", "async", "(", "item", ")", "=>", "{">>),
      Line(0, <<"for", "(", "const", "user", "of", "users", ")", "{">>),
      Line(0, <<"for", "(", "let", "i", "=", "0", ";", "i", "<", "items", ".", "length", ";", "i", "++", ")", "{">>),
      Line(0, <<"function", "process", "(", "item", ")", "{">>),
      Line(2, <<"await", "process", "(", "item", ")", ";">>),
      Line(2, <<"const", "posts", "=", "await", "db", ".", "query", "(", "'SELECT'", ",", "user", ".", "id", ")", ";">>),
      Line(2, <<"total", "+=", "1", ";">>),
      Line(0, <<"}">>),
      Line(0, <<"}", ")", ";">>) }

RECURSIVE SeqsUpTo(_, _)
SeqsUpTo(S, n) ==
    IF n = 0 THEN {<< >>}
    ELSE LET shorter == SeqsUpTo(S, n - 1)
         IN  shorter \cup {Append(s, x) : s \in {t \in shorter : Len(t) = n - 1}, x \in S}

Snippets == SeqsUpTo(LineKinds, MaxSnippet) \ {<< >>}

HasToken(line, token) == \E i \in 1..Len(line.tokens) : line.tokens[i] = token

\* line.trim() === '}'
isClosingBrace(line) == line.tokens = <<"}">>

\* /\.forEach\s*\(/
hasForEachCall(line) == Includes(line.tokens, <<".", "forEach", "(">>)

\* /\.forEach\s*\(\s*async\s*\(/
hasForEachAsync(line) == Includes(line.tokens, <<".", "forEach", "(", "async", "(">>)

\* for typescript: /\b(for|while)\s*\(/ or /\.forEach\s*\(/
isLoopLine(line) ==
    \/ Includes(line.tokens, <<"for", "(">>)
    \/ Includes(line.tokens, <<"while", "(">>)
    \/ hasForEachCall(line)

\* line.includes('.find(') and the like
hasNestedArrayOperations(line) ==
    \E method \in {"find", "filter", "map", "reduce", "some", "every"} :
        Includes(line.tokens, <<".", method, "(">>)

\* the lines after the one at start (1-based) that the look-ahead loops read:
\* i from startIndex + 1 while i < min(lines.length, startIndex + 10), ended
\* after a line that is a closing brace
RECURSIVE followingLines(_, _, _)
followingLines(lines, start, i) ==
    IF i > Min(Len(lines), start + 9) THEN << >>
    ELSE IF isClosingBrace(lines[i]) THEN <<lines[i]>>
    ELSE <<lines[i]>> \o followingLines(lines, start, i + 1)

\* an indented line with await before the loop's end
hasAwaitInFollowingLines(lines, start) ==
    \E line \in Range(followingLines(lines, start, start + 1)) :
        HasToken(line, "await") /\ line.indent >= 2

\* the query keywords, as case-insensitive regular expressions; 'db.' is db
\* and one more character
hasQueryKeyword(line) ==
    \/ \E word \in {"query", "find", "SELECT", "'SELECT'", "UPDATE", "INSERT", "DELETE"} :
           HasToken(line, word)
    \/ \E i \in 1..(Len(line.tokens) - 1) : line.tokens[i] = "db"
    \/ \E i, j \in 1..Len(line.tokens) :
           i < j /\ line.tokens[i] = "await" /\ line.tokens[j] = "fetch"

hasQueryInFollowingLines(lines, start) ==
    LET following == followingLines(lines, start, start + 1)
    IN  \E k \in 1..Len(following) :
            /\ hasQueryKeyword(following[k])
            \* a closing brace ends the scan only after it was tested itself
            /\ \A j \in 1..(k - 1) : ~isClosingBrace(following[j])

perfIssue(type, severity, line) == [type |-> type, severity |-> severity, line |-> line]

\* the issues a rule group pushes, line by line
RECURSIVE perLine(_)
perLine(issuesOfLines) ==
    IF issuesOfLines = << >> THEN << >>
    ELSE Head(issuesOfLines) \o perLine(Tail(issuesOfLines))

\* /for\s*\(\s*let\s+\w+\s*=\s*0\s*;\s*\w+\s*<\s*\w+\.length\s*;\s*\w+\+\+\s*\)/
hasLengthInLoopCondition(line) ==
    \E i \in 1..(Len(line.tokens) - 15) :
        LET t(k) == line.tokens[i + k]
        IN  /\ <<t(0), t(1), t(2)>> = <<"for", "(", "let">>
            /\ <<t(4), t(5), t(6)>> = <<"=", "0", ";">>
            /\ <<t(8), t(10), t(11), t(12)>> = <<"<", ".", "length", ";">>
            /\ <<t(14), t(15)>> = <<"++", ")">>

analyzeLoopPatterns(lines) ==
    LET issuesOfLine(i) ==
            (IF hasLengthInLoopCondition(lines[i])
             THEN <<perfIssue("inefficient_loop", "medium", i)>> ELSE << >>)
            \o (IF isLoopLine(lines[i]) /\ hasNestedArrayOperations(lines[i])
                THEN <<perfIssue("inefficient_loop", "high", i)>> ELSE << >>)
    IN  perLine([i \in 1..Len(lines) |-> issuesOfLine(i)])

analyzeAsyncPatterns(lines) ==
    LET issuesOfLine(i) ==
            (IF hasForEachAsync(lines[i])
             THEN <<perfIssue("excessive_async_await", "high", i)>> ELSE << >>)
            \o (IF isLoopLine(lines[i]) /\ hasAwaitInFollowingLines(lines, i)
                THEN <<perfIssue("excessive_async_await", "high", i)>> ELSE << >>)
    IN  perLine([i \in 1..Len(lines) |-> issuesOfLine(i)])

\* the first {...} of the line holds more than five commas
isLargeObjectCreation(line) ==
    \E i, j \in 1..Len(line.tokens) :
        /\ i < j /\ line.tokens[i] = "{" /\ line.tokens[j] = "}"
        /\ \A k \in 1..(i - 1) : line.tokens[k] # "{"
        /\ \A k \in (i + 1)..(j - 1) : line.tokens[k] # "}"
        /\ Cardinality({k \in (i + 1)..(j - 1) : line.tokens[k] = ","}) > 5

\* addEventListener(' without a removal, and large object literals
analyzeMemoryPatterns(lines) ==
    LET issuesOfLine(i) ==
            (IF Includes(lines[i].tokens, <<"addEventListener", "(">>)
                /\ ~\E l \in Range(lines) : HasToken(l, "removeEventListener") \/ HasToken(l, "AbortController")
             THEN <<perfIssue("memory_leak_risk", "high", i)>> ELSE << >>)
            \o (IF isLargeObjectCreation(lines[i])
                THEN <<perfIssue("large_object_creation", "medium", i)>> ELSE << >>)
    IN  perLine([i \in 1..Len(lines) |-> issuesOfLine(i)])

\* ---- regular-expression literals -----------------------------------------

RegexChars == {"(", ")", ".", "*", "+", "\\", "w", "a", "[", "^", "]", "/"}

\* \w
WordChars == {"w", "a"}

Lit(c) == [chars |-> {c}, star |-> FALSE]

\* does the pattern (a sequence of character classes, starred or not) match
\* the text from position i on
RECURSIVE MatchFrom(_, _, _, _)
MatchFrom(text, i, pat, k) ==
    IF k > Len(pat) THEN TRUE
    ELSE LET here == i <= Len(text) /\ text[i] \in pat[k].chars
         IN  IF pat[k].star
             THEN MatchFrom(text, i, pat, k + 1) \/ (here /\ MatchFrom(text, i + 1, pat, k))
             ELSE here /\ MatchFrom(text, i + 1, pat, k + 1)

\* RegExp.test without anchors
Test(pat, text) == \E i \in 1..(Len(text) + 1) : MatchFrom(text, i, pat, 1)

dangerousPatterns ==
    << \* /\(\.\*\)\+/
       <<Lit("("), Lit("."), Lit("*"), Lit(")"), Lit("+")>>,
       \* /\(\.\+\)\*/
       <<Lit("("), Lit("."), Lit("+"), Lit(")"), Lit("*")>>,
       \* /\(\[\^[^\]]*\]\*\)\+/
       <<Lit("("), Lit("["), Lit("^"), [chars |-> RegexChars \ {"]"}, star |-> TRUE],
         Lit("]"), Lit("*"), Lit(")"), Lit("+")>>,
       \* /\(\w\*\)\+/ : an opening parenthesis, one word character, *)+
       <<Lit("("), [chars |-> WordChars, star |-> FALSE], Lit("*"), Lit(")"), Lit("+")>> >>

\* line.match(/\/(.+?)\/[gimuy]*/g) on a line with at most one literal, whose
\* body holds no slash
regexMatches(line) ==
    IF line.regex = << >> THEN << >> ELSE << <<"/">> \o line.regex \o <<"/">> >>

RECURSIVE dangerousIssues(_, _, _)
dangerousIssues(regex, i, k) ==
    IF k > Len(dangerousPatterns) THEN << >>
    ELSE (IF Test(dangerousPatterns[k], regex)
          THEN <<perfIssue("inefficient_regex", "critical", i)>> ELSE << >>)
         \o dangerousIssues(regex, i, k + 1)

analyzeRegexPatterns(lines) ==
    LET issuesOfLine(i) ==
            IF regexMatches(lines[i]) = << >> THEN << >>
            ELSE dangerousIssues(regexMatches(lines[i])[1], i, 1)
    IN  perLine([i \in 1..Len(lines) |-> issuesOfLine(i)])

analyzeDatabasePatterns(lines) ==
    LET issuesOfLine(i) ==
            IF isLoopLine(lines[i]) /\ hasQueryInFollowingLines(lines, i)
            THEN <<perfIssue("n_plus_one_query", "critical", i)>> ELSE << >>
    IN  perLine([i \in 1..Len(lines) |-> issuesOfLine(i)])

\* the name in  function name | const name =  ("" when the line has none)
definedName(line) ==
    IF \E i \in 1..(Len(line.tokens) - 1) : line.tokens[i] = "function"
    THEN LET i == CHOOSE i \in 1..(Len(line.tokens) - 1) : line.tokens[i] = "function"
         IN  line.tokens[i + 1]
    ELSE IF \E i \in 1..(Len(line.tokens) - 2) :
                line.tokens[i] = "const" /\ line.tokens[i + 2] = "="
    THEN LET i == CHOOSE i \in 1..(Len(line.tokens) - 2) :
                      line.tokens[i] = "const" /\ line.tokens[i + 2] = "="
         IN  line.tokens[i + 1]
    ELSE ""

\* the lines of the function's body that the look-ahead reads: up to 50
\* lines, ended after a lone closing brace
RECURSIVE bodyLines(_, _, _)
bodyLines(lines, start, i) ==
    IF i > Min(Len(lines), start + 49) THEN << >>
    ELSE IF isClosingBrace(lines[i]) THEN <<lines[i]>>
    ELSE <<lines[i]>> \o bodyLines(lines, start, i + 1)

isRecursiveFunction(lines, start, funcName) ==
    LET body == bodyLines(lines, start, start + 1)
    IN  \E k \in 1..Len(body) :
            /\ Includes(body[k].tokens, <<funcName, "(">>)
            /\ \A j \in 1..(k - 1) : ~isClosingBrace(body[j])

hasMemoization(lines, start) ==
    \E line \in Range(bodyLines(lines, start, start)) :
        \E word \in {"cache", "memo", "Map", "has", "get", "set"} : HasToken(line, word)

analyzeRecursionPatterns(lines) ==
    LET issuesOfLine(i) ==
            IF /\ definedName(lines[i]) # ""
               /\ isRecursiveFunction(lines, i, definedName(lines[i]))
               /\ ~hasMemoization(lines, i)
            THEN <<perfIssue("recursive_without_memoization", "high", i)>> ELSE << >>
    IN  perLine([i \in 1..Len(lines) |-> issuesOfLine(i)])

\* PerformanceAnalyzer.analyzePerformance(content, 'typescript'): the issues of
\* the six rule groups, in the order they run
performanceIssuesOf(lines) ==
    analyzeLoopPatterns(lines) \o analyzeAsyncPatterns(lines) \o analyzeMemoryPatterns(lines)
        \o analyzeRegexPatterns(lines) \o analyzeDatabasePatterns(lines)
        \o analyzeRecursionPatterns(lines)

InnerChars == {".", "*", "+", "\\", "w"}

RegexBodies ==
    {<<"(">> \o inner \o <<")", q>> :
        inner \in SeqsUpTo(InnerChars, MaxInner) \ {<< >>}, q \in {"+", "*"}}
    \cup {<<"(", "[", "^", "a", "]", "*", ")", "+">>}

\* const pattern = /body/;
RegexLine(body) == [indent |-> 0, tokens |-> <<"const", "pattern", "=">>, regex |-> body]

SnippetPerformance ==
    /\ nIn = NoCall
    /\ \E lines \in Snippets :
          /\ nIn' = [fn |-> "analyzePerformance", lines |-> lines]
          /\ nOut' = [returned |-> TRUE, issues |-> performanceIssuesOf(lines)]

SnippetRegex ==
    /\ nIn = NoCall
    /\ \E body \in RegexBodies :
          /\ nIn' = [fn |-> "analyzePerformance", lines |-> <<RegexLine(body)>>]
          /\ nOut' = [returned |-> TRUE, issues |-> performanceIssuesOf(<<RegexLine(body)>>)]

NextSnippetOnly == SnippetSecret \/ SnippetPerformance \/ SnippetRegex

(***************************************************************************)
(* Component 9: the options of an instance over its life.                  *)
(*                                                                         *)
(* A CodeAnalyzer keeps its options in this.config, an AnalyzerEngine in   *)
(* this.analysisOptions; both read them when the analysis of a file        *)
(* starts.  A result records which analyzers were started for the file.    *)
(***************************************************************************)
VARIABLES
    gKind,          \* "none", "CodeAnalyzer" or "AnalyzerEngine"
    gConstructed,   \* the options the constructor left
    gConfig,        \* this.config / this.analysisOptions now
    gResults,       \* one entry per analysed file, in the order of the analyses
    gBatch,         \* files of the running analyzeBatch not yet started
    gUpdates        \* calls of updateConfig / setPerformanceAnalysis so far

varsConfig == <<gKind, gConstructed, gConfig, gResults, gBatch, gUpdates>>

MaxUpdates == 1

\* a batch and one more file
MaxAnalysed == MaxFiles + 1

ConfigKeys == {"enableComplexity", "enableSecurity", "enablePerformance", "enablePatterns"}

\* the defaults of both constructors
defaultConfig == [key \in ConfigKeys |-> TRUE]

\* Partial<AnalyzerConfig>: the options a caller passes
PartialConfigs ==
    UNION {[keys -> BOOLEAN] : keys \in SUBSET {"enableSecurity", "enablePerformance"}}

\* { ...config, ...newConfig }
spread(config, newConfig) ==
    [key \in ConfigKeys |-> IF key \in DOMAIN newConfig THEN newConfig[key] ELSE config[key]]

\* CodeAnalyzer.updateConfig: this.config = { ...this.config, ...newConfig }
updateConfig(config, newConfig) == spread(config, newConfig)

\* the analyzers analyzeCode / analyzeFile start under the options
startedAnalyzers(config) ==
    {fam \in {"complexity", "security", "performance", "patterns"} :
        \/ fam = "complexity" /\ config["enableComplexity"]
        \/ fam = "security" /\ config["enableSecurity"]
        \/ fam = "performance" /\ config["enablePerformance"]
        \/ fam = "patterns" /\ config["enablePatterns"]}

\* new CodeAnalyzer(config) / new AnalyzerEngine(config, options)
CfgConstruct ==
    /\ gKind = "none"
    /\ \E kind \in {"CodeAnalyzer", "AnalyzerEngine"}, options \in PartialConfigs :
          /\ gKind' = kind
          /\ gConfig' = spread(defaultConfig, options)
          /\ gConstructed' = spread(defaultConfig, options)
    /\ UNCHANGED <<gResults, gBatch, gUpdates>>

\* CodeAnalyzer.updateConfig(newConfig), at any moment the caller has control:
\* between two calls and while analyzeBatch awaits a chunk
CfgUpdateConfig ==
    /\ gKind = "CodeAnalyzer"
    /\ gUpdates < MaxUpdates
    /\ \E newConfig \in PartialConfigs : gConfig' = updateConfig(gConfig, newConfig)
    /\ gUpdates' = gUpdates + 1
    /\ UNCHANGED <<gKind, gConstructed, gResults, gBatch>>

\* AnalyzerEngine.setPerformanceAnalysis(enabled)
CfgSetPerformanceAnalysis ==
    /\ gKind = "AnalyzerEngine"
    /\ gUpdates < MaxUpdates
    /\ \E enabled \in BOOLEAN : gConfig' = [gConfig EXCEPT !["enablePerformance"] = enabled]
    /\ gUpdates' = gUpdates + 1
    /\ UNCHANGED <<gKind, gConstructed, gResults, gBatch>>

\* analyzeCode(content, language) / analyzeFile(fileInfo, content, repositoryId)
\* on one file
CfgAnalyze ==
    /\ gKind # "none"
    /\ gBatch = 0
    /\ Len(gResults) < MaxAnalysed
    /\ gResults' = Append(gResults, [batch |-> FALSE, analyzers |-> startedAnalyzers(gConfig)])
    /\ UNCHANGED <<gKind, gConstructed, gConfig, gBatch, gUpdates>>

\* analyzeBatch(files) is called
CfgBatchCall ==
    /\ gKind = "CodeAnalyzer"
    /\ gBatch = 0
    /\ \E n \in 1..MaxFiles :
          /\ Len(gResults) + n <= MaxAnalysed
          /\ gBatch' = n
    /\ UNCHANGED <<gKind, gConstructed, gConfig, gResults, gUpdates>>

\* one round of the loop of analyzeBatch: batch.map starts analyzeCode for
\* every file of the chunk, the await gives control back to the caller
CfgBatchChunk ==
    /\ gBatch > 0
    /\ LET size == Min(gBatch, concurrencyLimit)
       IN  /\ gResults' = gResults \o
                  [k \in 1..size |-> [batch |-> TRUE, analyzers |-> startedAnalyzers(gConfig)]]
           /\ gBatch' = gBatch - size
    /\ UNCHANGED <<gKind, gConstructed, gConfig, gUpdates>>

NextConfigOnly ==
    \/ CfgConstruct
    \/ CfgUpdateConfig
    \/ CfgSetPerformanceAnalysis
    \/ CfgAnalyze
    \/ CfgBatchCall
    \/ CfgBatchChunk

(***************************************************************************)
(* Specifications.                                                         *)
(***************************************************************************)
vars == <<varsBatch, varsRepo, varsFile, varsRules, varsAst, varsCx, varsSum, varsSnippet, varsConfig>>

\* Nothing has been called yet: no batch run, the configuration builder holds
\* the defaults, no engine is constructed, and every security pattern's
\* RegExp is as created.
Init ==
    /\ bOp = "analyzeBatch"
    /\ bN = 0
    /\ bFails = {}
    /\ bSize = concurrencyLimit
    /\ bPos = 0
    /\ bPc = "next"
    /\ bRunning = {}
    /\ bOrder = <<>>
    /\ bResults = <<>>
    /\ bStatus = "idle"
    /\ bPeak = 0
    /\ rPc = "idle"
    /\ rCfg = build(DefaultLanguages, CHOOSE t \in Timeouts : TRUE, CHOOSE m \in SizeCeilings : TRUE)
    /\ rN = 0
    /\ rFs = << >>
    /\ rFiles = << >>
    /\ rSkipped = << >>
    /\ rErrors = << >>
    /\ rPos = 0
    /\ rRead = << >>
    /\ rEnhanced = << >>
    /\ rResults = << >>
    /\ rClock = 0
    /\ rReport = NoReport
    /\ fEngine = NoEngine
    /\ fIn = NoCall
    /\ fOut = NoResult
    /\ sLastIndex = ZeroLastIndex
    /\ sFirst = NoRuleCall
    /\ sCalls = 0
    /\ sIn = NoRuleCall
    /\ sOut = NoResult
    /\ pIn = NoRuleCall
    /\ pOut = NoResult
    /\ aParsers = [loaded |-> FALSE, langs |-> {}]
    /\ aIn = NoCall
    /\ aOut = NoResult
    /\ cIn = NoCall
    /\ cOut = NoResult
    /\ uIn = NoCall
    /\ uOut = NoResult
    /\ nIn = NoCall
    /\ nOut = NoResult
    /\ gKind = "none"
    /\ gConstructed = defaultConfig
    /\ gConfig = defaultConfig
    /\ gResults = << >>
    /\ gBatch = 0
    /\ gUpdates = 0

NextBatch == NextBatchOnly /\ UNCHANGED <<varsRepo, varsFile, varsRules, varsAst, varsCx, varsSum, varsSnippet, varsConfig>>

SpecBatch == Init /\ [][NextBatch]_vars

NextRepo == NextRepoOnly /\ UNCHANGED <<varsBatch, varsFile, varsRules, varsAst, varsCx, varsSum, varsSnippet, varsConfig>>

SpecRepo == Init /\ [][NextRepo]_vars

NextFile == NextFileOnly /\ UNCHANGED <<varsBatch, varsRepo, varsRules, varsAst, varsCx, varsSum, varsSnippet, varsConfig>>

SpecFile == Init /\ [][NextFile]_vars

NextRules == NextRulesOnly /\ UNCHANGED <<varsBatch, varsRepo, varsFile, varsAst, varsCx, varsSum, varsSnippet, varsConfig>>

SpecRules == Init /\ [][NextRules]_vars

NextPerf == NextPerfOnly /\ UNCHANGED <<varsBatch, varsRepo, varsFile, varsAst, varsCx, varsSum, varsSnippet, varsConfig>>

SpecPerf == Init /\ [][NextPerf]_vars

NextAst == NextAstOnly /\ UNCHANGED <<varsBatch, varsRepo, varsFile, varsRules, varsCx, varsSum, varsSnippet, varsConfig>>

SpecAst == Init /\ [][NextAst]_vars

NextCx == NextCxOnly /\ UNCHANGED <<varsBatch, varsRepo, varsFile, varsRules, varsAst, varsSum, varsSnippet, varsConfig>>

SpecCx == Init /\ [][NextCx]_vars

NextSum == NextSumOnly /\ UNCHANGED <<varsBatch, varsRepo, varsFile, varsRules, varsAst, varsCx, varsSnippet, varsConfig>>

SpecSum == Init /\ [][NextSum]_vars

NextSnippet == NextSnippetOnly /\ UNCHANGED <<varsBatch, varsRepo, varsFile, varsRules, varsAst, varsCx, varsSum, varsConfig>>

SpecSnippet == Init /\ [][NextSnippet]_vars

NextConfig == NextConfigOnly /\ UNCHANGED <<varsBatch, varsRepo, varsFile, varsRules, varsAst, varsCx, varsSum, varsSnippet>>

SpecConfig == Init /\ [][NextConfig]_vars

(***************************************************************************)
(* Properties.                                                             *)
(***************************************************************************)

\* The report a batch run owes its caller: the files whose analysis did not
\* raise, in the order of the input list.
InputOrderReport == SelectSeq(Slice(bN, 0, bN), LAMBDA f : f \notin bFails)

\* C1: a single file's failure never aborts the batch -- the batch operation
\* never raises, and when it returns, every file whose analysis did not
\* raise has been analysed and is in the report.
C1_FileFailureNeverAbortsBatch ==
    /\ bStatus # "rejected"
    /\ bStatus = "done" => \A f \in (1..bN) \ bFails : f \in Range(bResults)

\* C2: whenever the analysis of a whole file raises (the catch block of the
\* entry point is reached), the result for that file holds exactly one
\* issue, the synthetic analysis-error issue of severity low.
C2_ExceptionYieldsOneSyntheticIssue ==
    (fOut.returned /\ fOut.raised) =>
        /\ Len(fOut.issues) = 1
        /\ fOut.issues[1].type = "analysis_error"
        /\ fOut.issues[1].severity = "low"

\* C3: no issue of a returned file report has a confidence below the
\* configured confidence threshold.
C3_NoIssueBelowThreshold ==
    fOut.returned =>
        \A i \in 1..Len(fOut.issues) :
            fOut.issues[i].hasConfidence =>
                fOut.issues[i].confidence >= fEngine.confidenceThreshold

\* C4: in a returned file report no category holds more than
\* maxIssuesPerCategory issues.
C4_CategoryWithinCap ==
    fOut.returned =>
        \A i \in 1..Len(fOut.issues) :
            CountCategory(fOut.issues, fOut.issues[i].category) <= fEngine.maxIssuesPerCategory

\* C5: analysing the content of the instance's first analysis again, under
\* the same language and after any sequence of other analyses and quick
\* scans on the same analyzer instance, yields the same issues and the same
\* score as the first analysis did; no pattern keeps a scan position from
\* one analysis to the next.
C5_ReanalysisIdempotent ==
    /\ (sIn.analyzer = "security" /\ sFirst # NoRuleCall /\ sIn = sFirst.call) =>
           (sOut.issues = sFirst.issues /\ sOut.score = sFirst.score)
    /\ sLastIndex = ZeroLastIndex

\* C5 witness: the first analysis found two matches of one pattern (the scan
\* position moved), and a later call on the same instance analysed the same
\* content again with the same result.
C5_Witness ==
    /\ sFirst # NoRuleCall
    /\ sCalls >= 2
    /\ sIn = sFirst.call
    /\ Len(sFirst.issues) >= 2
    /\ sFirst.issues[1].type = sFirst.issues[2].type
    /\ sOut.returned
    /\ sOut.issues = sFirst.issues

\* C6: the report of a finished batch run is the same for every order in
\* which the concurrently analysed files settle: it is the input-order list
\* of the files whose analysis did not raise.
C6_ReportIndependentOfFinishOrder ==
    bStatus = "done" => bResults = InputOrderReport

\* C6 witness: a run over more than one chunk has returned, and the files of
\* its last chunk settled in an order other than the input order.
C6_Witness ==
    /\ bStatus = "done"
    /\ bN > bSize
    /\ Len(bResults) >= 2
    /\ \E i, j \in 1..Len(bOrder) : i < j /\ bOrder[i] > bOrder[j]

\* The issues the rules other than the failing one find, each once, in rule
\* order.
OtherPatternIssues(call) ==
    scanPatterns(call.content,
                 SelectSeq(languagePatterns(call.lang), LAMBDA p : p # call.fault),
                 1, "none", ZeroLastIndex, << >>).issues

RECURSIVE OtherGroupIssues(_, _)
OtherGroupIssues(call, k) ==
    IF k > Len(PerfGroups) THEN << >>
    ELSE (IF PerfGroups[k] = call.fault THEN << >>
          ELSE groupIssues(call.content, PerfGroups[k], 1))
         \o OtherGroupIssues(call, k + 1)

\* C7: an exception raised while one rule is evaluated is caught for that
\* rule alone -- the result holds the issues of every other rule, those found
\* before and those found after the failure, each exactly once.
C7_RuleFailureIsolated ==
    /\ (sIn.analyzer = "security" /\ sIn.fault # "none") =>
           sOut.issues = OtherPatternIssues(sIn)
    /\ (pIn.analyzer = "performance" /\ pIn.fault # "none") =>
           pOut.issues = OtherGroupIssues(pIn, 1)

\* A configuration is valid when every language it requests has an analyzer
\* keyword table.
ConfigValid(cfg) == cfg.languages \subseteq KeywordLanguages

\* C8: an invalid configuration is rejected at construction -- no candidate
\* file is ever examined or analysed under a configuration that requests an
\* unsupported language.
C8_InvalidConfigNeverReachesFiles ==
    (Len(rFs) > 0 \/ rPos > 0) => ConfigValid(rCfg)

\* C9: once the whole-repository timeout has elapsed, no further file
\* analysis is started.
C9_NoFileStartedAfterTimeout ==
    [][(rPc = "process" /\ rClock >= rCfg.timeout) => rPos' = rPos]_vars

\* The candidates whose I/O failed: stat or readFile failed at discovery
\* (unreadable, binary), the file is over the size ceiling, or getFileContent
\* failed when the content was read for analysis.
IoFailed(id) ==
    \/ rFs[id].stat = "error"
    \/ rFs[id].read # "ok"
    \/ rFs[id].size > rCfg.maxFileSize
    \/ \E k \in 1..Len(rRead) : rFiles[k] = id /\ rRead[k] = "fail"

\* C10: a file whose I/O fails, at discovery or when its content is read for
\* analysis, is in the skip list of the report.
C10_IoFailureInSkipList ==
    rReport.returned =>
        \A id \in 1..rN : IoFailed(id) => id \in Range(rReport.skipList)

\* C11: a parse failure never surfaces as a raised exception or an error
\* result -- parseCode itself never raises, and when the parse of a text
\* failed, analyzePatterns returns without raising, with the issues of the
\* text-pattern scans of the text.
C11_ParseFailureDegrades ==
    aOut.returned =>
        /\ ~aOut.parse.raised
        /\ (aIn.fn = "analyzePatterns" /\ ~aOut.parse.success) =>
               /\ ~aOut.raised
               /\ aOut.mode = "text"
               /\ aOut.issues = analyzeWithText(aIn.code, 1) \o analyzeTextPatterns(aIn.code, 1)

\* C11 witness: Tree-sitter threw on a text of a language whose parser is
\* loaded, and analyzePatterns returned the text-pattern issues of the text.
C11_Witness ==
    /\ aOut.returned
    /\ aIn.fn = "analyzePatterns"
    /\ aIn.lang \in aParsers.langs
    /\ aIn.answer = "throws"
    /\ aOut.mode = "text"
    /\ Len(aOut.issues) >= 2

\* C12: every reported cyclomaticComplexity value, the file-level one and
\* the one of each function, is at least 1.
C12_CyclomaticAtLeastOne ==
    (cOut.returned /\ cIn.fn # "calculateMaintainabilityIndex") =>
        /\ cOut.cyclomaticComplexity >= 1
        /\ \A i \in 1..Len(cOut.functionComplexity) : cOut.functionComplexity[i] >= 1

\* C12 as the code has it: the cyclomaticComplexity of each function is at
\* least 1; the file-level value of analyzeComplexity is the sum over the
\* functions found, so it is at least 1 exactly when the text has a function
\* and 0 when it has none (the empty text included).  The text-mode analysis
\* of the earlier analyzer counts from 1.
C12_CyclomaticPerFunctionAtLeastOne ==
    (cOut.returned /\ cIn.fn # "calculateMaintainabilityIndex") =>
        /\ \A i \in 1..Len(cOut.functionComplexity) : cOut.functionComplexity[i] >= 1
        /\ cIn.fn = "analyzeComplexity" =>
               /\ cOut.cyclomaticComplexity = SumSeq(cOut.functionComplexity)
               /\ cOut.cyclomaticComplexity >= Len(cIn.functions)
               /\ (cOut.cyclomaticComplexity = 0) <=> (cIn.functions = << >>)
        /\ cIn.fn = "fallbackTextAnalysis" => cOut.cyclomaticComplexity >= 1

\* C12 witness: a text with two functions, one of them without any decision
\* keyword, was analysed.
C12_Witness ==
    /\ cOut.returned
    /\ cIn.fn = "analyzeComplexity"
    /\ Len(cIn.functions) = 2
    /\ \E i \in 1..2 : cIn.functions[i] = 0 /\ cOut.functionComplexity[i] = 1
    /\ cOut.cyclomaticComplexity >= 2

\* C13: the reported maintainabilityIndex lies within [0, 100], for every
\* line count (0 included) and every average complexity.
C13_MaintainabilityIndexInRange ==
    cOut.returned =>
        /\ cOut.fileComplexity.maintainabilityIndex >= 0
        /\ cOut.fileComplexity.maintainabilityIndex <= 100

\* C13 witness: the penalties of a text exceed 100 and the index is 0.
C13_Witness ==
    /\ cOut.returned
    /\ cIn.fn = "analyzeComplexity"
    /\ cIn.lines > 1
    /\ 3 * SumSeq(cOut.functionComplexity) > 100 * Len(cIn.functions)
    /\ cOut.fileComplexity.maintainabilityIndex = 0

\* C14: every overall score of a file report or a repository report is a
\* number within [0, 100], whatever the number and the severities of the
\* issues.  Violated: the AnalyzerEngine with the performance analyzer reads
\* summary.securityScore from the result of analyzeSecurity, which has no
\* such property, so its overall score is NaN whenever security analysis ran.
C14_OverallScoreInRange ==
    (uOut.returned /\ "overall" \in DOMAIN uOut) =>
        (~uOut.overall.nan /\ uOut.overall.value \in 0..100)

\* the weight tables of the category scores
WeightTable(fn) ==
    CASE fn = "calculateRiskScore" -> [low |-> 1, medium |-> 3, high |-> 10, critical |-> 25]
      [] fn = "securityScore" -> [low |-> 1, medium |-> 5, high |-> 10, critical |-> 25]
      [] fn = "calculateOverallScore" -> [low |-> 3, medium |-> 8, high |-> 15, critical |-> 25]
      [] OTHER -> [low |-> 1, medium |-> 3, high |-> 7, critical |-> 15]

SeverityWeightSum(issues, weight) ==
      weight["low"] * CountWhere(issues, "severity", "low")
    + weight["medium"] * CountWhere(issues, "severity", "medium")
    + weight["high"] * CountWhere(issues, "severity", "high")
    + weight["critical"] * CountWhere(issues, "severity", "critical")

Clamp(x) == Max(0, Min(100, x))

IsCategoryScore == uOut.returned /\ "score" \in DOMAIN uOut

\* C15 as stated: each category score equals clamp(100 - sum of the severity
\* weights of the issues of the category, 0, 100) with the weight table of
\* the category.  Violated by the risk score of SecurityAnalyzer.
C15_CategoryScoreIsClampedComplement ==
    IsCategoryScore =>
        uOut.score = Clamp(100 - SeverityWeightSum(uIn.issues, WeightTable(uIn.fn)))

\* C15 amended: the performance score, the general scores and the
\* securityScore of analyzeCode equal clamp(100 - sum of weights, 0, 100);
\* the score SecurityAnalyzer.analyzeSecurity reports is a risk score, the
\* sum of the weights itself clamped to [0, 100].
C15_CategoryScoreOrRiskScore ==
    IsCategoryScore =>
        uOut.score = IF uIn.fn = "calculateRiskScore"
                     THEN Clamp(SeverityWeightSum(uIn.issues, WeightTable(uIn.fn)))
                     ELSE Clamp(100 - SeverityWeightSum(uIn.issues, WeightTable(uIn.fn)))

\* a performance score whose deduction goes beyond 100
C15_Witness ==
    /\ IsCategoryScore
    /\ uIn.fn = "calculateOverallScore"
    /\ SeverityWeightSum(uIn.issues, WeightTable(uIn.fn)) > 100
    /\ uOut.score = 0

IsFileSummary ==
    /\ uOut.returned
    /\ "fn" \in DOMAIN uIn
    /\ uIn.fn \in {"generateComprehensiveSummary", "generateSummaryV1", "generateSummaryV2"}

\* the category scores of the file whose analyzer results are in uIn: the
\* score the analyzer reported, the security score being 100 less the
\* weights of the security issues, and 100 for an analyzer that did not run
CategoryScoresOfInput ==
    [complexity |-> IF uIn.complexity = Undefined THEN 100
                    ELSE uIn.complexity.fileComplexity.maintainabilityIndex,
     security |-> IF uIn.security = Undefined THEN 100
                  ELSE IF "securityScore" \in DOMAIN uIn.security.summary
                       THEN uIn.security.summary.securityScore
                       ELSE Clamp(100 - SeverityWeightSum(uIn.security.issues,
                                                          WeightTable("calculateRiskScore"))),
     performance |-> IF uIn.performance = Undefined THEN 100
                     ELSE uIn.performance.summary.overallScore,
     maintainability |-> IF uIn.patterns = Undefined THEN 100
                         ELSE uIn.patterns.summary.codeQualityScore]

\* C16: the overall score of a file is the rounded weighted mean of its
\* category scores, weights security 0.3, performance 0.3, complexity 0.2,
\* maintainability 0.2.  Violated: generateComprehensiveSummary takes a
\* category score of 0 for 100 and never reads a security score; the
\* AnalyzerEngine versions use other weights.
C16_OverallIsWeightedMean ==
    IsFileSummary =>
        uOut.overall = Num(Round(  3 * CategoryScoresOfInput.security
                                 + 3 * CategoryScoresOfInput.performance
                                 + 2 * CategoryScoresOfInput.complexity
                                 + 2 * CategoryScoresOfInput.maintainability, 10))

HasRecommendations == uOut.returned /\ "recommendations" \in DOMAIN uOut

\* the category a recommendation text is about, "none" for the texts about
\* severities and the overall score
RecommendationCategory(text) ==
    CASE text \in {"optimize_loops", "parallelize_async", "eliminate_n_plus_one",
                   "cleanup_listeners", "review_regex", "add_memoization",
                   "no_performance_recommendations", "focus_performance"} -> "performance"
      [] text \in {"parameterized_queries", "secure_algorithms",
                   "automated_security_testing"} -> "security"
      [] text = "good_patterns" -> "patterns"
      [] text = "refactor_complex" -> "complexity"
      [] text = "improve_structure" -> "maintainability"
      [] OTHER -> "none"

\* C18: the recommendation list of a report has an entry for every category
\* with at least one issue.  Violated: generateCombinedRecommendations reads
\* security.recommendations, which is a property of security.summary, so
\* security issues bring no entry; AnalysisEngine.generateRecommendations has
\* entries for complexity and maintainability only above 5 and 10 issues.
C18_EntryForEveryCategoryWithIssues ==
    HasRecommendations =>
        \A c \in DOMAIN uOut.issuesByCategory :
            uOut.issuesByCategory[c] > 0 =>
                \E k \in 1..Len(uOut.recommendations) :
                    RecommendationCategory(uOut.recommendations[k].text) = c

IsUrgentEntry(rec) == rec.text \in {"urgent", "address_critical"}

\* C19: when the critical-issue count of a report is greater than 0, the
\* returned recommendation list holds the urgent entry; the list never has
\* more than 8 entries and never holds the same entry twice.
C19_UrgentEntryWithinCap ==
    HasRecommendations =>
        /\ uOut.issuesBySeverity["critical"] > 0 =>
               \E k \in 1..Len(uOut.recommendations) :
                   /\ IsUrgentEntry(uOut.recommendations[k])
                   /\ uOut.recommendations[k].n = uOut.issuesBySeverity["critical"]
        /\ Len(uOut.recommendations) <= 8
        /\ \A i \in 1..Len(uOut.recommendations) : \A j \in 1..Len(uOut.recommendations) :
               uOut.recommendations[i] = uOut.recommendations[j] => i = j

\* a list of 8 entries whose last is the urgent entry, the set before the cap
\* holding a ninth
C19_Witness ==
    /\ HasRecommendations
    /\ uIn.fn = "generateComprehensiveSummary"
    /\ uOut.issuesBySeverity["critical"] > 0
    /\ Len(uOut.recommendations) = 8
    /\ IsUrgentEntry(uOut.recommendations[8])
    /\ Len(combinedRecommendationSet(uIn.complexity, uIn.security, uIn.performance,
                                     uIn.patterns)) = 9

\* C20: analysing an empty file yields zero issues and an overall score of
\* 100.  Violated: AnalysisEngine.analyzeFile reports the issue 'Empty File'
\* for a file whose isEmpty is set, and the summary deducts its weight.
C20_EmptyFileHasNoIssues ==
    (/\ rReport.returned
     /\ rEnhanced # << >>
     /\ Len(rEnhanced) = Len(rFiles)
     /\ \A k \in 1..Len(rEnhanced) : rEnhanced[k].isEmpty)
    => (rReport.results = << >> /\ rReport.summary.overallScore = 100)

\* the try block of AnalyzerEngine.analyzeFile with its families taken in the
\* given order; with order = Families it is runFamilies
RECURSIVE runFamiliesInOrder(_, _, _, _, _)
runFamiliesInOrder(engine, call, order, k, issues) ==
    IF k > Len(order) THEN [issues |-> issues, raised |-> FALSE]
    ELSE IF ~shouldAnalyze(engine, call, order[k])
         THEN runFamiliesInOrder(engine, call, order, k + 1, issues)
         ELSE IF familyThrows(call, order[k])
              THEN [issues |-> issues, raised |-> TRUE]
              ELSE runFamiliesInOrder(engine, call, order, k + 1,
                       issues \o MapSeq(familyFindings(call.raw, order[k]), convertToIssue))

\* the issues analyzeFile returns when its families run in the given order
issuesInOrder(engine, call, order) ==
    limitIssuesPerCategory(
        filterIssuesByConfidence(runFamiliesInOrder(engine, call, order, 1, << >>).issues,
                                 engine.confidenceThreshold),
        engine.maxIssuesPerCategory)

FamilyOrders == {[k \in 1..Len(Families) |-> Families[p[k]]] : p \in Permutations(1..Len(Families))}

SameMultiset(a, b) ==
    \A x \in Range(a) \cup Range(b) :
        Cardinality({i \in 1..Len(a) : a[i] = x}) = Cardinality({i \in 1..Len(b) : b[i] = x})

\* C21: for any file, running the detector families in any order yields the
\* same multiset of issues in the file's result.  Stated here for the runs in
\* which no analyzer raises.  Violated: the sort of limitIssuesPerCategory is
\* stable, so of two issues of one category with equal severity and
\* confidence the cap keeps the one whose family ran first.
C21_DetectorOrderInsensitive ==
    (fOut.returned /\ fEngine.kind = "engineV2" /\ ~fOut.raised) =>
        \A order \in FamilyOrders :
            SameMultiset(issuesInOrder(fEngine, fIn, order), fOut.issues)

\* the line  const api_key = "sk-1234567890abcdef1234567890abcdef";
ApiKeyLine ==
    [name |-> [first |-> "api", sep |-> "_", second |-> "key"], quote |-> "double",
     value |-> <<"s", "k", "-">> \o [i \in 1..32 |-> "1"]]

\* C22: analysing the single line  const api_key = "sk-1234567890abcdef1234567890abcdef";
\* yields exactly one hardcoded_secret issue, of severity critical and of
\* confidence at least 0.8.  Violated: the pattern wants 16 letters or digits
\* right after the quote and the value has a dash as its third character, so
\* the scan returns no issue (and a value that does match gets 0.7).
C22_ApiKeyLineYieldsOneCriticalSecret ==
    (nOut.returned /\ nIn.fn = "quickSecurityScan" /\ nIn.line = ApiKeyLine) =>
        /\ Len(nOut.issues) = 1
        /\ nOut.issues[1].type = "hardcoded_secret"
        /\ nOut.issues[1].severity = "critical"
        /\ nOut.issues[1].confidence >= 80

\* the snippet with one forEach whose async callback awaits
ForEachAsyncSnippet ==
    << Line(0, <<"items", ".", "forEach", "(", "async", "(", "item", ")", "=>", "{">>),
       Line(2, <<"await", "process", "(", "item", ")", ";">>),
       Line(0, <<"}", ")", ";">>) >>

\* the snippet with one for loop whose body awaits a database query
QueryInLoopSnippet ==
    << Line(0, <<"for", "(", "const", "user", "of", "users", ")", "{">>),
       Line(2, <<"const", "posts", "=", "await", "db", ".", "query", "(", "'SELECT'", ",", "user", ".", "id", ")", ";">>),
       Line(0, <<"}">>) >>

\* C23: a snippet whose only defect is one offending loop is reported
\* exactly once by analyzePerformance: the forEach with an async callback
\* that awaits as one excessive_async_await issue of severity high, the for
\* loop that awaits a database query as one n_plus_one_query issue of
\* severity critical.  Violated: the forEach line is also a loop line with an
\* await below it, and the query loop is also a loop with an await below it,
\* so each snippet gets two issues.
C23_OffendingLoopReportedOnce ==
    (nOut.returned /\ nIn.fn = "analyzePerformance") =>
        /\ nIn.lines = ForEachAsyncSnippet =>
              /\ Len(nOut.issues) = 1
              /\ nOut.issues[1].type = "excessive_async_await"
              /\ nOut.issues[1].severity = "high"
        /\ nIn.lines = QueryInLoopSnippet =>
              /\ Len(nOut.issues) = 1
              /\ nOut.issues[1].type = "n_plus_one_query"
              /\ nOut.issues[1].severity = "critical"

\* the bodies (.*)+, (.+)* and (\w*)+
ReDoSShapes ==
    { <<"(", ".", "*", ")", "+">>, <<"(", ".", "+", ")", "*">>, <<"(", "\\", "w", "*", ")", "+">> }

\* C24: a regular-expression literal with one of the shapes (.*)+, (.+)* or
\* (\w*)+ is reported as an issue of severity critical.  Violated: the rule
\* for the third shape reads \w as the class of word characters, so it finds
\* (a*)+ and not the text (\w*)+.
C24_ReDoSShapeReportedCritical ==
    (nOut.returned /\ nIn.fn = "analyzePerformance" /\ Len(nIn.lines) = 1
        /\ nIn.lines[1].regex \in ReDoSShapes) =>
        \E i \in 1..Len(nOut.issues) :
            nOut.issues[i].type = "inefficient_regex" /\ nOut.issues[i].severity = "critical"

\* what analyzeFile hands to limitIssuesPerCategory
issuesBeforeCap ==
    filterIssuesByConfidence(runFamilies(fEngine, fIn, 1, << >>).issues, fEngine.confidenceThreshold)

CountOf(issues, x) == Cardinality({i \in 1..Len(issues) : issues[i] = x})

DiscardedByCap == {x \in Range(issuesBeforeCap) : CountOf(issuesBeforeCap, x) > CountOf(fOut.issues, x)}

HigherPriority(x, y) ==
    \/ severityOrder(x.severity) > severityOrder(y.severity)
    \/ x.severity = y.severity /\ x.confidence > y.confidence

CappedReport ==
    /\ fOut.returned
    /\ fEngine.kind \in {"engineV1", "engineV2"}
    /\ ~(fEngine.kind = "engineV1" /\ fOut.raised)

\* C25: when a category has more issues than maxIssuesPerCategory, the
\* discarded issues are the lowest-priority ones: no discarded issue has a
\* higher severity, or the same severity and a higher confidence, than a
\* retained issue of the same category.
C25_DiscardedAreLowestPriority ==
    CappedReport =>
        \A x \in DiscardedByCap : \A y \in Range(fOut.issues) :
            y.category = x.category => ~HigherPriority(x, y)

\* a report from which the cap removed an issue whose category keeps an
\* issue of higher priority, found after it
C25_Witness ==
    /\ CappedReport
    /\ \E x \in DiscardedByCap : \E y \in Range(fOut.issues) :
          /\ y.category = x.category
          /\ HigherPriority(y, x)
          /\ \E i, j \in 1..Len(issuesBeforeCap) :
                i < j /\ issuesBeforeCap[i] = x /\ issuesBeforeCap[j] = y

\* C26: at every moment of a batch run the number of files under analysis at
\* the same time is at most the concurrency limit of the run (5 in
\* analyzeBatch, batchSize in processBatch).
C26_ConcurrencyWithinLimit ==
    /\ Cardinality(bRunning) <= bSize
    /\ bPeak <= bSize

\* a run over more files than the limit, in which as many analyses as the
\* limit allows are in flight
C26_Witness ==
    /\ bStatus = "running"
    /\ bN > bSize
    /\ Cardinality(bRunning) = bSize

\* max(0, round(100 - 2 * (total / count) - 5 * ln(lineCount))), and 100 for
\* lineCount = 0; the average of no function is 0
IndexWithFactorTwo(lineCount, total, count) ==
    IF lineCount = 0 THEN 100
    ELSE LET n == IF count = 0 THEN 1 ELSE count
             den == LnScale * n
         IN  Max(0, Round(100 * den - 2 * total * LnScale - 5 * Ln(lineCount) * n, den))

\* C27: the maintainability index of a file equals
\* max(0, round(100 - 2 * avgCyclomaticComplexity - 5 * ln(lineCount))) for
\* lineCount > 0 and 100 for lineCount = 0.  Violated: the analyzer takes
\* three times the average complexity, not twice.
C27_MaintainabilityIndexFormula ==
    (cOut.returned /\ cIn.fn \in {"analyzeComplexity", "calculateMaintainabilityIndex"}) =>
        cOut.fileComplexity.maintainabilityIndex =
            IndexWithFactorTwo(cIn.lines, cOut.fileComplexity.totalCyclomaticComplexity,
                               Len(cOut.functionComplexity))

\* C28: the configuration is immutable after construction: every file
\* analysed by one instance, all files of one batch included, is analysed
\* under the options the instance was constructed with, whatever is invoked
\* in between.  Violated: updateConfig replaces this.config and
\* setPerformanceAnalysis writes this.analysisOptions, and the next analysis
\* (the next chunk of a running batch included) reads the new value.
C28_AnalysedUnderConstructedOptions ==
    \A i \in 1..Len(gResults) : gResults[i].analyzers = startedAnalyzers(gConstructed)

\* the call without the failing family: its findings are gone, nothing raises
WithoutFailingFamily(call) ==
    [call EXCEPT !.thrower = "none",
                 !.raw = SelectSeq(call.raw, LAMBDA r : r.family # call.thrower)]

\* C29: the failure of one analyzer family on a file does not suppress the
\* others: every other enabled family is still run and its issues are in the
\* report, which is therefore the report of the file without the failing
\* family.  Violated: analyzeFile runs the families inside one try block, so
\* the families after the failing one are not run.
C29_FailureDoesNotSuppressOthers ==
    (fOut.returned /\ fIn.thrower # "none") =>
        fOut.issues = analyzeWith(fEngine, WithoutFailingFamily(fIn)).issues

ScoredCategories == {"complexity", "security", "maintainability", "performance"}

IsFileReport == uOut.returned /\ uIn.fn = "analyzeFile"

\* C30: in every file report the scores agree with the issues listed: a
\* category with no listed issue has the score 100 and a category with
\* listed issues has a score below 100.  Violated: the scores are taken from
\* the analyzers' own results, not from the listed issues -- the complexity
\* score is the maintainability index, the security score is a property the
\* security result does not have, and the other two count the findings that
\* the confidence filter removed.
C30_ScoresAgreeWithListedIssues ==
    IsFileReport =>
        \A c \in ScoredCategories :
            /\ ~uOut.scores[c].nan
            /\ (CountCategory(uOut.issues, c) = 0) <=> (uOut.scores[c].value = 100)
            /\ uOut.scores[c].value <= 100

====
